---- MODULE Spec2Model ----
(***************************************************************************)
(* State-machine model of lammps-simulator and of its vashishta_simulator  *)
(* predecessor: the parameter-file generator (default tables, override     *)
(* merge, serialization) and the execution devices.                        *)
(***************************************************************************)
EXTENDS Integers, Sequences, FiniteSets, TLC

VARIABLES
    water,       \* module-level default table of substance "water"
    silica,      \* module-level default table of substance "silica"
    sim,         \* the Simulator object: self.params (a reference), self.param_file
    wd,          \* the parameter file in the working directory
    raised,      \* the last call: its arguments and how it ended
    calls,       \* calls made so far
    passed,      \* coefficient assignments passed so far, over all calls
    label,       \* a label handed to re.findall
    matches,     \* [done |-> re.findall has run, list |-> what it returned]
    Device_lmp_args, \* the dict that is the default of lmp_args in Device.__init__
    device,      \* the device object last constructed
    ctor,        \* the last constructor call: its arguments and how it ended
    fs,          \* the jobscripts stored in the working directories
    procs,       \* the processes launched, in launch order
    jobs,        \* the sbatch submissions made, in order
    cwd,         \* the launching process's working directory, as the chdir's made
    ret,         \* the last device call: how it ended and what it returned
    steps,       \* constructor and device calls made so far
    dirs,        \* the directories of the local machine
    hdirs,       \* the directories of the remote host
    sims,        \* the Simulator constructions: where each one is, its fields
    simulator,   \* the Simulator object whose methods run simulations
    handler,     \* the handler installed for SIGINT
    signals      \* what an interrupt has made the process do, in order

vashishta_vars == <<water, silica, sim, wd, raised, calls, passed>>
findall_vars == <<label, matches>>
device_vars ==
    <<Device_lmp_args, device, ctor, fs, procs, jobs, cwd, ret, steps>>
dir_vars == <<dirs, hdirs, sims>>
run_vars == <<simulator, handler, signals>>
vars == <<vashishta_vars, findall_vars, device_vars, dir_vars, run_vars>>

(***************************************************************************)
(* Bounds of the model.                                                    *)
(***************************************************************************)
MaxCalls == 2      \* calls of generate_parameter_file in one run
MaxPassed == 2     \* coefficient assignments passed in one run, over all its calls
MaxLabelLen == 6   \* characters of a label handed to re.findall
MaxSteps == 3      \* constructor and device calls in one run
MaxSims == 2       \* Simulator constructions in one run

(***************************************************************************)
(* Python numbers.  A number is <<n, e, t>>: the value n * 10^(-e), of     *)
(* type t ("int" or "float"), with no trailing zero in n when e > 0.       *)
(* Doubling and halving are exact on binary floats, so decimal arithmetic  *)
(* computes what the interpreter computes.                                 *)
(***************************************************************************)
RECURSIVE Norm(_, _, _)
Norm(n, e, t) ==
    IF e > 0 /\ n % 10 = 0 THEN Norm(n \div 10, e - 1, t) ELSE <<n, e, t>>

I(n) == <<n, 0, "int">>
F(n, e) == Norm(n, e, "float")

\* the sign is lost: 2 * value
NegTwice_unsigned(v) == Norm(2 * v[1], v[2], v[3])

\* - 2 * value
NegTwice(v) == Norm(-2 * v[1], v[2], v[3])

\* - value / 2  (true division: the result is a float)
NegHalf(v) ==
    IF v[1] % 2 = 0 THEN Norm(-(v[1] \div 2), v[2], "float")
                    ELSE Norm(-5 * v[1], v[2] + 1, "float")

(***************************************************************************)
(* Python dicts keep insertion order: a dict is [keys |-> sequence of the  *)
(* keys in iteration order, val |-> function from the keys to the values]. *)
(***************************************************************************)
Range(s) == {s[i] : i \in DOMAIN s}

\* one triple's coefficients, in the key order of the literals of substance.py
Entry(H, eta, Zi, Zj, lambda1, D, lambda4, W, rc, B, gamma, r0, C, cos) ==
    [H |-> H, eta |-> eta, Zi |-> Zi, Zj |-> Zj, lambda1 |-> lambda1,
     D |-> D, lambda4 |-> lambda4, W |-> W, rc |-> rc, B |-> B,
     gamma |-> gamma, r0 |-> r0, C |-> C]
    @@ ("cos(theta)" :> cos)

water_HHH ==
    Entry(F(0, 0), I(9), F(32983, 5), F(32983, 5), F(443, 2), F(0, 0), F(25, 1), F(0, 0), F(55, 1), F(0, 0), F(0, 0), F(0, 0), F(0, 0), F(0, 0))
water_OOO ==
    Entry(F(196588, 2), I(9), F(-65966, 5), F(-65966, 5), F(443, 2), F(20887, 4), F(25, 1), F(10, 0), F(55, 1), F(0, 0), F(0, 0), F(0, 0), F(0, 0), F(0, 0))
water_OHH ==
    Entry(F(61437, 5), I(9), F(-65966, 5), F(32983, 5), F(443, 2), F(2611, 4), F(151113, 5), F(0, 0), F(55, 1), F(529333, 4), F(75, 2), F(14, 1), F(0, 0), F(-138267391, 9))
water_HOO ==
    Entry(F(61437, 5), I(9), F(32983, 5), F(-65966, 5), F(443, 2), F(2611, 4), F(151113, 5), F(0, 0), F(55, 1), F(0, 0), F(0, 0), F(0, 0), F(0, 0), F(0, 0))
water_HOH ==
    Entry(F(0, 0), F(0, 0), F(0, 0), F(0, 0), F(0, 0), F(0, 0), F(0, 0), F(0, 0), F(0, 0), F(0, 0), F(0, 0), F(0, 0), F(0, 0), F(0, 0))
water_HHO ==
    Entry(F(0, 0), F(0, 0), F(0, 0), F(0, 0), F(0, 0), F(0, 0), F(0, 0), F(0, 0), F(0, 0), F(0, 0), F(0, 0), F(0, 0), F(0, 0), F(0, 0))
water_OHO ==
    Entry(F(0, 0), F(0, 0), F(0, 0), F(0, 0), F(0, 0), F(0, 0), F(0, 0), F(0, 0), F(0, 0), F(0, 0), F(0, 0), F(0, 0), F(0, 0), F(0, 0))
water_OOH ==
    Entry(F(0, 0), F(0, 0), F(0, 0), F(0, 0), F(0, 0), F(0, 0), F(0, 0), F(0, 0), F(0, 0), F(0, 0), F(0, 0), F(0, 0), F(0, 0), F(0, 0))
silica_SiSiSi ==
    Entry(F(39246, 5), I(11), F(12, 1), F(12, 1), F(443, 2), F(0, 0), F(25, 1), F(0, 0), F(55, 1), F(0, 0), F(0, 0), F(0, 0), F(0, 0), F(0, 0))
silica_OOO ==
    Entry(F(3555263, 4), I(7), F(-6, 1), F(-6, 1), F(443, 2), F(124413912, 7), F(25, 1), F(0, 0), F(55, 1), F(0, 0), F(0, 0), F(0, 0), F(0, 0), F(0, 0))
silica_OSiSi ==
    Entry(F(783143, 4), I(9), F(-6, 1), F(12, 1), F(443, 2), F(248827823, 7), F(25, 1), F(0, 0), F(55, 1), F(19972, 3), F(1, 0), F(26, 1), F(0, 0), F(-777145961, 9))
silica_SiOO ==
    Entry(F(783143, 4), I(9), F(-6, 1), F(12, 1), F(443, 2), F(248827823, 7), F(25, 1), F(0, 0), F(55, 1), F(4993, 3), F(1, 0), F(26, 1), F(0, 0), F(-333313248, 9))
silica_SiOSi ==
    Entry(F(0, 0), F(0, 0), F(0, 0), F(0, 0), F(0, 0), F(0, 0), F(0, 0), F(0, 0), F(0, 0), F(0, 0), F(0, 0), F(0, 0), F(0, 0), F(0, 0))
silica_SiSiO ==
    Entry(F(0, 0), F(0, 0), F(0, 0), F(0, 0), F(0, 0), F(0, 0), F(0, 0), F(0, 0), F(0, 0), F(0, 0), F(0, 0), F(0, 0), F(0, 0), F(0, 0))
silica_OSiO ==
    Entry(F(0, 0), F(0, 0), F(0, 0), F(0, 0), F(0, 0), F(0, 0), F(0, 0), F(0, 0), F(0, 0), F(0, 0), F(0, 0), F(0, 0), F(0, 0), F(0, 0))
silica_OOSi ==
    Entry(F(0, 0), F(0, 0), F(0, 0), F(0, 0), F(0, 0), F(0, 0), F(0, 0), F(0, 0), F(0, 0), F(0, 0), F(0, 0), F(0, 0), F(0, 0), F(0, 0))


\* the table Water.__call__ builds, in definition order
water_parameters ==
    [keys |-> <<"HHH", "OOO", "OHH", "HOO", "HOH", "HHO", "OHO", "OOH">>,
     val  |-> [HHH |-> water_HHH, OOO |-> water_OOO, OHH |-> water_OHH,
               HOO |-> water_HOO, HOH |-> water_HOH, HHO |-> water_HHO,
               OHO |-> water_OHO, OOH |-> water_OOH]]

\* the table Silica.__call__ builds, in definition order
silica_parameters ==
    [keys |-> <<"SiSiSi", "OOO", "OSiSi", "SiOO", "SiOSi", "SiSiO", "OSiO", "OOSi">>,
     val  |-> [SiSiSi |-> silica_SiSiSi, OOO |-> silica_OOO,
               OSiSi |-> silica_OSiSi, SiOO |-> silica_SiOO,
               SiOSi |-> silica_SiOSi, SiSiO |-> silica_SiSiO,
               OSiO |-> silica_OSiO, OOSi |-> silica_OOSi]]

(***************************************************************************)
(* Strings that the code takes apart are sequences of characters.  Names   *)
(* are the strings used as table keys; Chars gives their characters and    *)
(* Intern the name spelled by a character sequence.                        *)
(***************************************************************************)
Names ==
    {"HHH", "OOO", "OHH", "HOO", "HOH", "HHO", "OHO", "OOH",
     "SiSiSi", "OSiSi", "SiOO", "SiOSi", "SiSiO", "OSiO", "OOSi",
     "all", "global"}

Chars ==
    [HHH |-> <<"H", "H", "H">>, OOO |-> <<"O", "O", "O">>,
     OHH |-> <<"O", "H", "H">>, HOO |-> <<"H", "O", "O">>,
     HOH |-> <<"H", "O", "H">>, HHO |-> <<"H", "H", "O">>,
     OHO |-> <<"O", "H", "O">>, OOH |-> <<"O", "O", "H">>,
     SiSiSi |-> <<"S", "i", "S", "i", "S", "i">>,
     OSiSi |-> <<"O", "S", "i", "S", "i">>,
     SiOO |-> <<"S", "i", "O", "O">>,
     SiOSi |-> <<"S", "i", "O", "S", "i">>,
     SiSiO |-> <<"S", "i", "S", "i", "O">>,
     OSiO |-> <<"O", "S", "i", "O">>,
     OOSi |-> <<"O", "O", "S", "i">>,
     all |-> <<"a", "l", "l">>,
     global |-> <<"g", "l", "o", "b", "a", "l">>]

Intern(cs) ==
    IF \E n \in Names : Chars[n] = cs
    THEN CHOOSE n \in Names : Chars[n] = cs
    ELSE "?"

\* str.split(sep) for a one-character separator
RECURSIVE SplitFrom(_, _, _, _, _)
SplitFrom(cs, sep, i, cur, acc) ==
    IF i > Len(cs) THEN Append(acc, cur)
    ELSE IF cs[i] = sep THEN SplitFrom(cs, sep, i + 1, <<>>, Append(acc, cur))
    ELSE SplitFrom(cs, sep, i + 1, Append(cur, cs[i]), acc)

split(cs, sep) == SplitFrom(cs, sep, 1, <<>>, <<>>)

(***************************************************************************)
(* generate_parameter_file: merging the overrides into self.params.  The   *)
(* merge state is [tbl |-> the table, exc |-> the exception raised so far  *)
(* ("none" when none)]; once an exception is raised the remaining          *)
(* statements do not run.                                                  *)
(***************************************************************************)

\* the entry is replaced, not updated: self.params[c] = {parameter: value}
SetItem_replace(st, c, parameter, value) ==
    IF st.exc # "none" THEN st
    ELSE IF c \notin Range(st.tbl.keys) THEN [st EXCEPT !.exc = "KeyError"]
    ELSE [st EXCEPT !.tbl.val[c] = (parameter :> value)]

\* coefficient names are validated against the entry before the assignment
SetItem_checked(st, c, parameter, value) ==
    IF st.exc # "none" THEN st
    ELSE IF c \notin Range(st.tbl.keys) THEN [st EXCEPT !.exc = "KeyError"]
    ELSE IF parameter \notin DOMAIN st.tbl.val[c] THEN [st EXCEPT !.exc = "KeyError"]
    ELSE [st EXCEPT !.tbl.val[c] = (parameter :> value) @@ @]

\* self.params[c][parameter] = value
SetItem(st, c, parameter, value) ==
    IF st.exc # "none" THEN st
    ELSE IF c \notin Range(st.tbl.keys) THEN [st EXCEPT !.exc = "KeyError"]
    ELSE [st EXCEPT !.tbl.val[c] = (parameter :> value) @@ @]

\* a run of assignments <<c, parameter, value>>, in program order
RECURSIVE SetItems(_, _)
SetItems(st, as) ==
    IF as = <<>> THEN st
    ELSE SetItems(SetItem(st, as[1][1], as[1][2], as[1][3]), Tail(as))

NotImplemented(st) ==
    IF st.exc # "none" THEN st ELSE [st EXCEPT !.exc = "NotImplementedError"]

\* c == "global", one (key, value) item
GlobalItem(st, substance, key, value) ==
    IF substance = "water" THEN
        IF key = "Z_O" THEN
            LET Z_H == NegHalf(value) IN
            SetItems(st, << <<"HHH", "Zi", Z_H>>, <<"HHH", "Zj", Z_H>>,
                            <<"OOO", "Zi", value>>, <<"OOO", "Zj", value>>,
                            <<"HOO", "Zi", Z_H>>, <<"HOO", "Zj", value>>,
                            <<"OHH", "Zi", value>>, <<"OHH", "Zj", Z_H>> >>)
        ELSE IF key = "Z_H" THEN
            LET Z_O == NegTwice(value) IN
            SetItems(st, << <<"HHH", "Zi", value>>, <<"HHH", "Zj", value>>,
                            <<"OOO", "Zi", Z_O>>, <<"OOO", "Zj", Z_O>>,
                            <<"HOO", "Zi", value>>, <<"HOO", "Zj", Z_O>>,
                            <<"OHH", "Zi", Z_O>>, <<"OHH", "Zj", value>> >>)
        ELSE NotImplemented(st)
    ELSE IF substance = "silica" THEN
        IF key = "Z_Si" THEN
            LET Z_O == NegHalf(value) IN
            SetItems(st, << <<"SiSiSi", "Zi", value>>, <<"SiSiSi", "Zj", value>>,
                            <<"OOO", "Zi", Z_O>>, <<"OOO", "Zj", Z_O>>,
                            <<"SiOO", "Zi", value>>, <<"SiOO", "Zj", Z_O>>,
                            <<"OSiSi", "Zi", Z_O>>, <<"OSiSi", "Zj", value>> >>)
        ELSE IF key = "Z_O" THEN
            LET Z_Si == NegTwice(value) IN
            SetItems(st, << <<"SiSiSi", "Zi", Z_Si>>, <<"SiSiSi", "Zj", Z_Si>>,
                            <<"OOO", "Zi", value>>, <<"OOO", "Zj", value>>,
                            <<"SiOO", "Zi", Z_Si>>, <<"SiOO", "Zj", value>>,
                            <<"OSiSi", "Zi", value>>, <<"OSiSi", "Zj", Z_Si>> >>)
        ELSE NotImplemented(st)
    ELSE st

\* c == "all", one (key, value) item
AllItem(st, substance, key, value) ==
    IF substance = "water" THEN
        SetItems(st, << <<"HHH", key, value>>, <<"OOO", key, value>>,
                        <<"OHH", key, value>>, <<"HOO", key, value>> >>)
    ELSE IF substance = "silica" THEN
        SetItems(st, << <<"SiSiSi", key, value>>, <<"OOO", key, value>>,
                        <<"SiOO", key, value>>, <<"OSiSi", key, value>> >>)
    ELSE st

\* the body of "for c in combs", one item of parameters
MergeItem(st, substance, c, key, value) ==
    IF st.exc # "none" THEN st
    ELSE IF c = "global" THEN GlobalItem(st, substance, key, value)
    ELSE IF c = "all" THEN AllItem(st, substance, key, value)
    ELSE SetItem(st, c, key, value)

\* "for key, value in parameters.items()", from item i on
RECURSIVE MergeParameters(_, _, _, _, _)
MergeParameters(st, substance, c, parameters, i) ==
    IF i > Len(parameters.keys) THEN st
    ELSE MergeParameters(
            MergeItem(st, substance, c, parameters.keys[i],
                      parameters.val[parameters.keys[i]]),
            substance, c, parameters, i + 1)

\* "for c in combs", from label i on
RECURSIVE MergeCombs(_, _, _, _, _)
MergeCombs(st, substance, combs, parameters, i) ==
    IF i > Len(combs) THEN st
    ELSE MergeCombs(
            MergeParameters(st, substance, Intern(combs[i]), parameters, 1),
            substance, combs, parameters, i + 1)

\* the entries are visited last to first: reversed(params.items())
RECURSIVE Merge_reversed(_, _, _, _)
Merge_reversed(st, substance, overrides, i) ==
    IF i > Len(overrides.keys) THEN st
    ELSE LET comb == overrides.keys[Len(overrides.keys) + 1 - i]
         IN  Merge_reversed(
                MergeCombs(st, substance, split(comb, ","), overrides.val[comb], 1),
                substance, overrides, i + 1)

\* "for comb, parameters in params.items()", from entry i on
RECURSIVE Merge(_, _, _, _)
Merge(st, substance, overrides, i) ==
    IF i > Len(overrides.keys) THEN st
    ELSE Merge(
            MergeCombs(st, substance, split(overrides.keys[i], ","),
                       overrides.val[overrides.keys[i]], 1),
            substance, overrides, i + 1)

(***************************************************************************)
(* Serialization.                                                          *)
(***************************************************************************)
Upper ==
    {"A", "B", "C", "D", "E", "F", "G", "H", "I", "J", "K", "L", "M",
     "N", "O", "P", "Q", "R", "S", "T", "U", "V", "W", "X", "Y", "Z"}

\* re.findall('[A-Z][^A-Z]*', name): cur is the match in progress, open says
\* whether there is one; characters before the first capital match nothing
RECURSIVE FindallFrom(_, _, _, _, _)
FindallFrom(cs, i, open, cur, acc) ==
    IF i > Len(cs) THEN (IF open THEN Append(acc, cur) ELSE acc)
    ELSE IF cs[i] \in Upper
         THEN FindallFrom(cs, i + 1, TRUE, <<cs[i]>>,
                          IF open THEN Append(acc, cur) ELSE acc)
    ELSE IF open THEN FindallFrom(cs, i + 1, TRUE, Append(cur, cs[i]), acc)
    ELSE FindallFrom(cs, i + 1, FALSE, cur, acc)

\* re.findall('[A-Z]', name): the capitals alone
findall_capitals(cs) == SelectSeq([i \in DOMAIN cs |-> <<cs[i]>>],
                                  LAMBDA m : m[1] \in Upper)

findall(cs) == FindallFrom(cs, 1, FALSE, <<>>, <<>>)

Digit == <<"0", "1", "2", "3", "4", "5", "6", "7", "8", "9">>

RECURSIVE Pow10(_)
Pow10(e) == IF e = 0 THEN 1 ELSE 10 * Pow10(e - 1)

RECURSIVE Digits(_)
Digits(k) ==
    IF k < 10 THEN <<Digit[k + 1]>>
    ELSE Append(Digits(k \div 10), Digit[(k % 10) + 1])

\* the last e decimal digits of k, zero-padded
RECURSIVE FracDigits(_, _)
FracDigits(k, e) ==
    IF e = 0 THEN <<>>
    ELSE Append(FracDigits(k \div 10, e - 1), Digit[(k % 10) + 1])

\* str(param) of a number in the range where repr uses no exponent
StrNum(v) ==
    LET a == IF v[1] < 0 THEN -v[1] ELSE v[1]
        sign == IF v[1] < 0 THEN <<"-">> ELSE <<>>
    IN  IF v[3] = "int" THEN sign \o Digits(a)
        ELSE sign \o Digits(a \div Pow10(v[2])) \o <<".">> \o
             (IF v[2] = 0 THEN <<"0">> ELSE FracDigits(a % Pow10(v[2]), v[2]))

\* a string as a list item: <<characters, 0, "str">>
Str(cs) == <<cs, 0, "str">>

\* str(param); a string is its own str
str(param) == IF param[3] = "str" THEN param[1] ELSE StrNum(param)

RECURSIVE Spaces(_)
Spaces(n) == IF n = 0 THEN <<>> ELSE Append(Spaces(n - 1), " ")

RECURSIVE JoinParams(_, _)
JoinParams(param_list, string) ==
    IF param_list = <<>> THEN string \o <<"\n">>
    ELSE JoinParams(Tail(param_list),
                    string \o str(param_list[1]) \o <<" ", " ", "\t">>)

\* param_list.append(params[suffix]) for each suffix; a missing key raises
RECURSIVE Lookup(_, _, _)
Lookup(entry, param_suffices, param_list) ==
    IF param_suffices = <<>> THEN [exc |-> "none", list |-> param_list]
    ELSE IF param_suffices[1] \notin DOMAIN entry
         THEN [exc |-> "KeyError", list |-> param_list]
    ELSE Lookup(entry, Tail(param_suffices),
                Append(param_list, entry[param_suffices[1]]))

ordered_parameter_string(entry, param_suffices, param_list, string) ==
    LET l == Lookup(entry, param_suffices, param_list)
    IN  IF l.exc # "none" THEN [exc |-> l.exc, string |-> <<>>]
        ELSE [exc |-> "none", string |-> JoinParams(l.list, string)]

params_line1 == <<"H", "eta", "Zi", "Zj", "r1s", "D", "r4s">>
params_line2 == <<"W", "rc", "B", "xi", "r0", "C", "cos(theta)">>

StrTokens(tokens) == [i \in DOMAIN tokens |-> Str(tokens[i])]

\* the strings append_type_to_file writes for one triple, or the exception
append_type_to_file(name, entry) ==
    LET prefix_list == StrTokens(findall(Chars[name]))
        line1 == ordered_parameter_string(entry, params_line1, prefix_list, <<>>)
        line2 == ordered_parameter_string(entry, params_line2, <<>>,
                                          Spaces(Len(Chars[name]) + 6))
    IN  IF line1.exc # "none" THEN [exc |-> line1.exc, written |-> <<>>]
        ELSE IF line2.exc # "none" THEN [exc |-> line2.exc, written |-> <<>>]
        ELSE [exc |-> "none",
              written |-> << <<"\n">>, line1.string, line2.string >>]

\* "for name, params in self.params.items()", from table entry i on
RECURSIVE AppendTypes(_, _, _)
AppendTypes(tbl, i, body) ==
    IF i > Len(tbl.keys) THEN [exc |-> "none", body |-> body]
    ELSE LET a == append_type_to_file(tbl.keys[i], tbl.val[tbl.keys[i]])
         IN  IF a.exc # "none" THEN [exc |-> a.exc, body |-> body]
             ELSE AppendTypes(tbl, i + 1, body \o a.written)

(***************************************************************************)
(* The arguments a caller may pass.                                        *)
(***************************************************************************)
Substances == {"water", "silica", "ice"}

Combs ==
    {Chars["all"], Chars["global"], Chars["OOO"],
     Chars["OOO"] \o <<",">> \o Chars["OHH"]}

Coefs == {"Zi", "Z_H", "Z_O"}

Values == {F(5, 1), F(55, 1)}

\* the value tried for a coefficient name
ValuesOf(c) == IF c = "Zi" THEN {F(55, 1)} ELSE {F(5, 1)}

InjSeqs(S, lo, hi) ==
    {q \in UNION {[1..n -> S] : n \in lo..hi} :
        \A i, j \in DOMAIN q : q[i] = q[j] => i = j}

\* the dicts of lo..hi items with keys in K and values in V
Dicts(K, V, lo, hi) ==
    UNION {{[keys |-> q, val |-> f] : f \in [Range(q) -> V]} :
           q \in InjSeqs(K, lo, hi)}

EmptyDict == [keys |-> <<>>, val |-> <<>>]

\* the coefficient assignments a mapping passes
RECURSIVE Size(_, _)
Size(ov, i) ==
    IF i > Len(ov.keys) THEN 0
    ELSE Len(ov.val[ov.keys[i]].keys) + Size(ov, i + 1)

\* the override mappings of at most n coefficient assignments, no entry empty
ParamDicts(n) ==
    {parameters \in Dicts(Coefs, Values, 1, n) :
        \A c \in Range(parameters.keys) : parameters.val[c] \in ValuesOf(c)}

Overrides(n) ==
    UNION {{ov \in Dicts(Combs, ParamDicts(n + 1 - k), k, k) :
               Size(ov, 1) <= n} :
           k \in 0..n}

(***************************************************************************)
(* lammps_simulator.device.  A string that the code takes apart (dir) is a *)
(* sequence of characters, None is the sequence NoneType; a string that is *)
(* passed on whole is a TLA+ string, and a string that str.split() cuts at *)
(* white space is the sequence of its words.                               *)
(***************************************************************************)
NoneType == <<"None">>

\* d[k] = v: a new key goes last, a present key keeps its place
DictSet(d, k, v) ==
    [keys |-> IF k \in Range(d.keys) THEN d.keys ELSE Append(d.keys, k),
     val |-> [x \in Range(d.keys) \cup {k} |-> IF x = k THEN v ELSE d.val[x]]]

\* {**a, **b}, from item i of b on
RECURSIVE DictMerge(_, _, _)
DictMerge(a, b, i) ==
    IF i > Len(b.keys) THEN a
    ELSE DictMerge(DictSet(a, b.keys[i], b.val[b.keys[i]]), b, i + 1)

\* the dict of the items <<key, value>> of a sequence, in order
RECURSIVE DictOf(_)
DictOf(items) ==
    IF items = <<>> THEN EmptyDict
    ELSE DictSet(DictOf(SubSeq(items, 1, Len(items) - 1)),
                 items[Len(items)][1], items[Len(items)][2])

\* str() of the integers in use
IntStr(k) ==
    CASE k = 0 -> "0" [] k = 1 -> "1" [] k = 2 -> "2" [] k = 16 -> "16"
      [] k = 32 -> "32" [] k = 300 -> "300" [] k = 4 -> "4"

\* a value of lmp_args: a string, given by its words, or a list of strings
StrValue(words) == <<"str", words>>
ListValue(items) == <<"list", items>>

\* the words of str() of a list of strings, from item i on: "['a'," "'b']"
RECURSIVE ReprWords(_, _)
ReprWords(items, i) ==
    IF i > Len(items) THEN <<>>
    ELSE << (IF i = 1 THEN "['" ELSE "'") \o items[i]
            \o (IF i = Len(items) THEN "']" ELSE "',") >>
         \o ReprWords(items, i + 1)

\* str(value).split()
StrSplit(value) ==
    IF value[1] = "str" THEN value[2]
    ELSE IF value[2] = <<>> THEN <<"[]">>
    ELSE ReprWords(value[2], 1)

\* a value of lmp_var: an integer, or a list of integers
IntValue(k) == <<"int", k>>

\* map(str, list(value)), from item i on
RECURSIVE MapStr(_, _)
MapStr(items, i) ==
    IF i > Len(items) THEN <<>>
    ELSE <<IntStr(items[i])>> \o MapStr(items, i + 1)

\* a value of slurm_args: a string, or None
Setting(string) == <<"str", string>>
NoSetting == <<"NoneType", "">>

\* self.job before a jobscript string is stored in it
NoJob == [set |-> FALSE, text |-> <<>>]

\* no device object is bound yet
NoDevice ==
    [cls |-> "none", num_procs |-> 0, lmp_exec |-> "", slurm |-> FALSE,
     lmp_args |-> [ref |-> "own", own |-> EmptyDict], slurm_args |-> EmptyDict,
     write_jobscript |-> FALSE, jobname |-> "", job |-> NoJob,
     execute |-> FALSE, ssh |-> NoneType, wd |-> NoneType,
     gpu_per_node |-> 0, num_nodes |-> 0]

\* the dict an lmp_args attribute refers to: the shared default or its own
Deref(lmp_args, shared) ==
    IF lmp_args.ref = "default" THEN shared ELSE lmp_args.own

\* Device.__init__(self, **kwargs): the attributes are set, then dir is
\* examined; [exc |-> the exception raised, self |-> the object]
Device__init__(cls, kwargs) ==
    LET self == [NoDevice EXCEPT
                    !.cls = cls, !.num_procs = 1, !.lmp_exec = "lmp",
                    !.lmp_args = kwargs.lmp_args, !.slurm = kwargs.slurm,
                    !.slurm_args = kwargs.slurm_args,
                    !.write_jobscript = kwargs.write_jobscript,
                    !.jobname = "job.ssh", !.execute = kwargs.execute]
    IN  IF kwargs.dir = NoneType
        THEN [exc |-> "TypeError", self |-> self]
        ELSE IF ":" \in Range(kwargs.dir)
        THEN LET parts == split(kwargs.dir, ":")
             IN  IF Len(parts) # 2
                 THEN [exc |-> "ValueError", self |-> self]
                 ELSE [exc |-> "none",
                       self |-> [self EXCEPT !.ssh = parts[1], !.wd = parts[2]]]
        ELSE [exc |-> "none", self |-> [self EXCEPT !.wd = kwargs.dir]]

\* GPU.__init__(self, gpu_per_node, mode, **kwargs)
GPU__init__(kwargs, gpu_per_node, mode, shared) ==
    LET r == Device__init__("GPU", kwargs)
        self == [r.self EXCEPT !.gpu_per_node = gpu_per_node]
        default_lmp_args ==
            IF mode = "kokkos"
            THEN DictOf(<< <<"-pk", StrValue(<<"kokkos", "newton", "on", "neigh", "full">>)>>,
                           <<"-k", StrValue(<<"on", "g", IntStr(gpu_per_node)>>)>>,
                           <<"-sf", StrValue(<<"kk">>)>> >>)
            ELSE DictOf(<< <<"-pk", StrValue(<<"gpu", "newton", "on", "neigh", "full">>)>>,
                           <<"-k", StrValue(<<"on", "g", IntStr(gpu_per_node)>>)>>,
                           <<"-sf", StrValue(<<"gpu">>)>> >>)
    IN  IF r.exc # "none" THEN r
        ELSE IF mode \notin {"kokkos", "gpu"}
        THEN [exc |-> "NotImplementedError", self |-> self]
        ELSE [exc |-> "none",
              self |-> [self EXCEPT !.lmp_args =
                          [ref |-> "own",
                           own |-> DictMerge(default_lmp_args,
                                             Deref(self.lmp_args, shared), 1)]]]

\* SlurmCPU.__init__(self, num_nodes, procs_per_node=16, **kwargs)
SlurmCPU__init__(kwargs, num_nodes) ==
    LET r == Device__init__("SlurmCPU", kwargs)
        num_procs == num_nodes * 16
        default_slurm_args ==
            DictOf(<< <<"job-name", Setting("CPU-job")>>,
                      <<"partition", Setting("normal")>>,
                      <<"ntasks", Setting(IntStr(num_procs))>>,
                      <<"nodes", Setting(IntStr(num_nodes))>>,
                      <<"output", Setting("slurm.out")>> >>)
    IN  IF r.exc # "none" THEN r
        ELSE [exc |-> "none",
              self |-> [r.self EXCEPT
                          !.num_nodes = num_nodes, !.num_procs = num_procs,
                          !.slurm_args =
                              DictMerge(default_slurm_args, r.self.slurm_args, 1)]]

\* SlurmGPU.__init__(self, gpu_per_node, mode, **kwargs)
SlurmGPU__init__(kwargs, gpu_per_node, mode, shared) ==
    LET r == Device__init__("SlurmGPU", kwargs)
        self == [r.self EXCEPT !.gpu_per_node = gpu_per_node]
        default_slurm_args ==
            DictOf(<< <<"job-name", Setting("GPU-job")>>,
                      <<"partition", Setting("normal")>>,
                      <<"ntasks", Setting(IntStr(gpu_per_node))>>,
                      <<"cpus-per-task", Setting("2")>>,
                      <<"gres", Setting("gpu:" \o IntStr(gpu_per_node))>>,
                      <<"output", Setting("slurm.out")>> >>)
        default_lmp_args ==
            IF mode = "kokkos"
            THEN DictOf(<< <<"-pk", StrValue(<<"kokkos", "newton", "on", "neigh", "full">>)>>,
                           <<"-k", StrValue(<<"on", "g", IntStr(gpu_per_node)>>)>>,
                           <<"-sf", StrValue(<<"kk">>)>> >>)
            ELSE DictOf(<< <<"-pk", StrValue(<<"gpu", "newton", "on", "neigh", "full">>)>>,
                           <<"-sf", StrValue(<<"gpu">>)>> >>)
    IN  IF r.exc # "none" THEN r
        ELSE IF mode \notin {"kokkos", "gpu"}
        THEN [exc |-> "NotImplementedError", self |-> self]
        ELSE [exc |-> "none",
              self |-> [self EXCEPT
                          !.lmp_args =
                              [ref |-> "own",
                               own |-> DictMerge(default_lmp_args,
                                                 Deref(self.lmp_args, shared), 1)],
                          !.slurm_args =
                              DictMerge(default_slurm_args, self.slurm_args, 1)]]

\* "for key, value in lmp_args.items()": key, then the words of str(value)
RECURSIVE ArgTokens(_, _)
ArgTokens(lmp_args, i) ==
    IF i > Len(lmp_args.keys) THEN <<>>
    ELSE <<lmp_args.keys[i]>> \o StrSplit(lmp_args.val[lmp_args.keys[i]])
         \o ArgTokens(lmp_args, i + 1)

\* lmp_var.items() with "-var" and the key before every item of a list
RECURSIVE VarTokens_each(_, _)
VarTokens_each(lmp_var, i) ==
    IF i > Len(lmp_var.keys) THEN <<>>
    ELSE LET key == lmp_var.keys[i]
             value == lmp_var.val[key]
         IN  (IF value[1] = "list"
              THEN <<"-var", key, IntStr(value[2][1]),
                     "-var", key, IntStr(value[2][2])>>
              ELSE <<"-var", key, IntStr(value[2])>>)
             \o VarTokens_each(lmp_var, i + 1)

\* "for key, value in lmp_var.items()": "-var", the key, then str(value),
\* or the str() of each item of a list
RECURSIVE VarTokens(_, _)
VarTokens(lmp_var, i) ==
    IF i > Len(lmp_var.keys) THEN <<>>
    ELSE LET key == lmp_var.keys[i]
             value == lmp_var.val[key]
         IN  <<"-var", key>>
             \o (IF value[1] = "list" THEN MapStr(value[2], 1)
                 ELSE <<IntStr(value[2])>>)
             \o VarTokens(lmp_var, i + 1)

\* the dict without the key k, the other keys in their order
DictWithout(d, k) ==
    LET Other(x) == x # k
    IN  [keys |-> SelectSeq(d.keys, Other),
         val |-> [x \in Range(d.keys) \ {k} |-> d.val[x]]]

\* the list in the order its docstring gives: "-in" and the script first
get_exec_list_docstring(num_procs, lmp_exec, lmp_args, lmp_var) ==
    <<"mpirun", "-n", IntStr(num_procs), lmp_exec>>
    \o (IF "-in" \in Range(lmp_args.keys)
        THEN <<"-in">> \o StrSplit(lmp_args.val["-in"]) ELSE <<>>)
    \o ArgTokens(DictWithout(lmp_args, "-in"), 1) \o VarTokens(lmp_var, 1)

get_exec_list(num_procs, lmp_exec, lmp_args, lmp_var) ==
    <<"mpirun", "-n", IntStr(num_procs), lmp_exec>>
    \o ArgTokens(lmp_args, 1) \o VarTokens(lmp_var, 1)

\* the "#SBATCH" lines of gen_jobscript_string; a line is the sequence of
\* the strings it is made of
RECURSIVE SbatchLines(_, _)
SbatchLines(slurm_args, i) ==
    IF i > Len(slurm_args.keys) THEN <<>>
    ELSE LET key == slurm_args.keys[i]
             setting == slurm_args.val[key]
         IN  << IF setting = NoSetting THEN <<"#SBATCH --", key>>
                ELSE <<"#SBATCH --", key, "=", setting[2]>>,
                <<"#">> >>
             \o SbatchLines(slurm_args, i + 1)

\* the jobscript, line by line; the last line is " ".join(exec_list)
gen_jobscript_string(exec_list, slurm_args) ==
    << <<"#!/bin/bash">>, <<>> >> \o SbatchLines(slurm_args, 1)
    \o << <<>>, exec_list >>

\* the "#SBATCH" lines of gen_jobscript in computer.py: the setting goes
\* through the f-string, whatever it is
RECURSIVE SbatchLines_0(_, _)
SbatchLines_0(slurm_args, i) ==
    IF i > Len(slurm_args.keys) THEN <<>>
    ELSE LET key == slurm_args.keys[i]
             setting == slurm_args.val[key]
         IN  << <<"#SBATCH --", key, "=",
                  IF setting = NoSetting THEN "None" ELSE setting[2]>>,
                <<"#">> >>
             \o SbatchLines_0(slurm_args, i + 1)

\* what gen_jobscript(exec_list, jobscript, slurm_args) of computer.py
\* writes, line by line
gen_jobscript(exec_list, slurm_args) ==
    << <<"#!/bin/bash">>, <<>> >> \o SbatchLines_0(slurm_args, 1)
    \o << <<>>, exec_list >>

\* open(path, "w").write(string)
store_jobscript(files, string, path) ==
    {f \in files : f.path # path} \cup {[path |-> path, text |-> string]}

Digit10 == {"0", "1", "2", "3", "4", "5", "6", "7", "8", "9"}

\* every digit of s, whatever separates them
RECURSIVE FirstDigits_all(_, _, _)
FirstDigits_all(cs, i, run) ==
    IF i > Len(cs) THEN run
    ELSE IF cs[i] \in Digit10
    THEN FirstDigits_all(cs, i + 1, Append(run, cs[i]))
    ELSE FirstDigits_all(cs, i + 1, run)

\* the first run of digits of s, and "0" when s has no digit
RECURSIVE FirstDigits_zero(_, _, _)
FirstDigits_zero(cs, i, run) ==
    IF i > Len(cs) THEN (IF run = <<>> THEN <<"0">> ELSE run)
    ELSE IF cs[i] \in Digit10
    THEN FirstDigits_zero(cs, i + 1, Append(run, cs[i]))
    ELSE IF run # <<>> THEN run
    ELSE FirstDigits_zero(cs, i + 1, run)

\* re.findall("([0-9]+)", s)[0] when there is a match: the first run of digits
RECURSIVE FirstDigits(_, _, _)
FirstDigits(cs, i, run) ==
    IF i > Len(cs) THEN run
    ELSE IF cs[i] \in Digit10 THEN FirstDigits(cs, i + 1, Append(run, cs[i]))
    ELSE IF run # <<>> THEN run
    ELSE FirstDigits(cs, i + 1, run)

\* int() of a string of digits
RECURSIVE ToInt(_)
ToInt(ds) ==
    IF ds = <<>> THEN 0
    ELSE 10 * ToInt(SubSeq(ds, 1, Len(ds) - 1))
         + (CHOOSE k \in 0..9 : Digit[k + 1] = ds[Len(ds)])

\* str() of the bytes that check_output returns
StrBytes(output) == <<"b", "'">> \o output \o <<"\\", "n", "'">>

Modes == {"kokkos", "gpu", "cuda"}

\* the keyword arguments of Device.__init__ at their defaults, but for dir;
\* the default of lmp_args is one dict shared by every such construction
Defaults(dir) ==
    [dir |-> dir, slurm |-> FALSE, execute |-> TRUE, write_jobscript |-> TRUE,
     lmp_args |-> [ref |-> "default", own |-> EmptyDict],
     slurm_args |-> EmptyDict]

\* lmp_args={"-sf": "omp", "-pk": ["a", "b"]}
OwnArgs ==
    [ref |-> "own",
     own |-> DictOf(<< <<"-sf", StrValue(<<"omp">>)>>,
                       <<"-pk", ListValue(<<"a", "b">>)>> >>)]

\* slurm_args={"exclusive": None, "job-name": "x"}
OwnSlurmArgs ==
    DictOf(<< <<"exclusive", NoSetting>>, <<"job-name", Setting("x")>> >>)

\* the keyword arguments the constructors of a class are called with
Kwargs(cls) ==
    LET local == Defaults(<<"s", "i", "m">>)
        remote == Defaults(<<"h", ":", "s", "i", "m">>)
    IN  (IF cls = "Custom"
         THEN {Defaults(NoneType),
               [Defaults(NoneType) EXCEPT !.slurm = TRUE,
                                          !.slurm_args = OwnSlurmArgs]}
         ELSE {Defaults(NoneType), local})
        \cup (IF cls \in {"Device", "GPU"}
              THEN {[local EXCEPT !.lmp_args = OwnArgs]} ELSE {})
        \cup (IF cls \in {"Device", "SlurmCPU", "SlurmGPU"}
              THEN {[local EXCEPT !.slurm = TRUE]} ELSE {})
        \cup (IF cls \in {"Device", "SlurmCPU"}
              THEN {[local EXCEPT !.slurm = TRUE,
                                  !.slurm_args = OwnSlurmArgs]}
              ELSE {})
        \cup (IF cls = "Device"
              THEN {remote,
                    [remote EXCEPT !.write_jobscript = FALSE],
                    [remote EXCEPT !.write_jobscript = FALSE,
                                   !.slurm = TRUE],
                    [local EXCEPT !.execute = FALSE],
                    [remote EXCEPT !.execute = FALSE],
                    [local EXCEPT !.write_jobscript = FALSE]}
              ELSE {})

Scripts == {"in.lammps", "in.run"}

\* lmp_var: no variable, or {"T": 300, "S": [1, 2]}
LmpVars ==
    {EmptyDict,
     DictOf(<< <<"T", IntValue(300)>>, <<"S", ListValue(<<1, 2>>)>> >>)}

\* what sbatch prints
SbatchOutputs ==
    {<<"j", "o", "b", " ", "4", "2", " ", "o", "n", " ", "7">>,
     <<"d", "o", "w", "n">>}

InitDevice ==
    /\ Device_lmp_args = EmptyDict
    /\ device = NoDevice
    /\ ctor = [n |-> 0, cls |-> "none", dir |-> NoneType, mode |-> "none",
               exc |-> "none"]
    /\ fs = {}
    /\ procs = <<>>
    /\ jobs = <<>>
    /\ cwd = <<>>
    /\ ret = [n |-> 0, exc |-> "none", value |-> 0, lmp_script |-> "",
              lmp_var |-> EmptyDict]
    /\ steps = 0

\* a constructor call ended as r says: the object is bound if it returned
Construct(cls, kwargs, mode, r) ==
    /\ steps' = steps + 1
    /\ ctor' = [n |-> ctor.n + 1, cls |-> cls, dir |-> kwargs.dir,
                mode |-> mode, exc |-> r.exc]
    /\ device' = IF r.exc = "none" THEN r.self ELSE device
    /\ UNCHANGED <<Device_lmp_args, fs, procs, jobs, cwd, ret>>
    /\ UNCHANGED <<vashishta_vars, findall_vars, dir_vars>>

new_Device(kwargs) ==
    Construct("Device", kwargs, "none", Device__init__("Device", kwargs))

new_CPU(kwargs) ==
    Construct("CPU", kwargs, "none", Device__init__("CPU", kwargs))

new_GPU(kwargs, mode) ==
    Construct("GPU", kwargs, mode, GPU__init__(kwargs, 1, mode, Device_lmp_args))

new_SlurmCPU(kwargs) ==
    Construct("SlurmCPU", kwargs, "none", SlurmCPU__init__(kwargs, 1))

new_SlurmGPU(kwargs, mode) ==
    Construct("SlurmGPU", kwargs, mode,
              SlurmGPU__init__(kwargs, 1, mode, Device_lmp_args))

\* Device.__call__(lmp_script, lmp_var, stdout, stderr); output is what sbatch
\* prints and found says whether the executable to launch exists
Device__call__body(self, lmp_script, lmp_var, output, found) ==
    LET shared == self.lmp_args.ref = "default"
        lmp_args == DictSet(Deref(self.lmp_args, Device_lmp_args),
                            "-in", StrValue(<<lmp_script>>))
        exec_list == get_exec_list(self.num_procs, self.lmp_exec,
                                   lmp_args, lmp_var)
        job == IF self.write_jobscript /\ ~ self.job.set
               THEN [set |-> TRUE,
                     text |-> gen_jobscript_string(exec_list, self.slurm_args)]
               ELSE self.job
        path == [dir |-> self.wd, name |-> self.jobname]
        call == [n |-> ret.n + 1, exc |-> "none", value |-> 0,
                 lmp_script |-> lmp_script, lmp_var |-> lmp_var]
        digits == FirstDigits(StrBytes(output), 1, <<>>)
    IN
    /\ Device_lmp_args' = IF shared THEN lmp_args ELSE Device_lmp_args
    /\ device' = [self EXCEPT
                    !.lmp_args.own = IF shared THEN @ ELSE lmp_args,
                    !.job = job]
    /\ IF self.write_jobscript /\ self.ssh # NoneType
       THEN \* exit()
            /\ ret' = [call EXCEPT !.exc = "SystemExit"]
            /\ UNCHANGED <<fs, procs, jobs, cwd>>
       ELSE /\ fs' = IF self.write_jobscript
                     THEN store_jobscript(fs, job.text, path) ELSE fs
            /\ IF ~ self.execute
               THEN /\ ret' = call
                    /\ UNCHANGED <<procs, jobs, cwd>>
               ELSE IF self.slurm
               THEN IF self.ssh = NoneType
                    THEN /\ jobs' = Append(jobs, [argv |-> <<"sbatch">>,
                                                  path |-> path,
                                                  output |-> output])
                         /\ ret' = IF digits = <<>>
                                   THEN [call EXCEPT !.exc = "IndexError"]
                                   ELSE [call EXCEPT !.value = ToInt(digits)]
                         /\ UNCHANGED <<procs, cwd>>
                    ELSE /\ ret' = [call EXCEPT !.exc = "NotImplementedError"]
                         /\ UNCHANGED <<procs, jobs, cwd>>
               ELSE IF self.ssh = NoneType
               THEN IF found
                    THEN /\ procs' = Append(procs, [via |-> NoneType,
                                                    dir |-> self.wd,
                                                    argv |-> exec_list])
                         /\ ret' = [call EXCEPT !.value = 100 + Len(procs')]
                         /\ UNCHANGED <<jobs, cwd>>
                    ELSE \* Popen raises between the two chdir's
                         /\ cwd' = Append(cwd, self.wd)
                         /\ ret' = [call EXCEPT !.exc = "FileNotFoundError"]
                         /\ UNCHANGED <<procs, jobs>>
               ELSE /\ procs' = Append(procs, [via |-> self.ssh,
                                               dir |-> self.wd,
                                               argv |-> exec_list])
                    /\ ret' = [call EXCEPT !.value = 100 + Len(procs')]
                    /\ UNCHANGED <<jobs, cwd>>

Device__call__(lmp_script, lmp_var, output, found) ==
    /\ device.cls \notin {"none", "Custom"}
    /\ steps' = steps + 1
    /\ Device__call__body(device, lmp_script, lmp_var, output, found)
    /\ UNCHANGED <<ctor, vashishta_vars, findall_vars, dir_vars>>

\* Custom(slurm=..., slurm_args=...) of computer.py
Custom__init__(kwargs) ==
    [exc |-> "none",
     self |-> [NoDevice EXCEPT
                 !.cls = "Custom", !.num_procs = 1,
                 !.lmp_exec = "lmp", !.lmp_args = kwargs.lmp_args,
                 !.slurm = kwargs.slurm,
                 !.slurm_args = kwargs.slurm_args,
                 !.write_jobscript = TRUE, !.jobname = "job.sh",
                 !.execute = TRUE]]

new_Custom(kwargs) ==
    Construct("Custom", kwargs, "none", Custom__init__(kwargs))

\* the body of Custom.__call__(lmp_script, lmp_var, stdout, stderr) of
\* computer.py, for the object computer, run in the directory here
Custom__call__body(computer, lmp_script, lmp_var, output, found, here) ==
    LET shared == computer.lmp_args.ref = "default"
        lmp_args == DictSet(Deref(computer.lmp_args, Device_lmp_args),
                            "-in", StrValue(<<lmp_script>>))
        exec_list == get_exec_list(computer.num_procs, computer.lmp_exec,
                                   lmp_args, lmp_var)
        path == [dir |-> here, name |-> computer.jobname]
        call == [n |-> ret.n + 1, exc |-> "none", value |-> 0,
                 lmp_script |-> lmp_script, lmp_var |-> lmp_var]
        digits == FirstDigits(StrBytes(output), 1, <<>>)
    IN
    /\ Device_lmp_args' = IF shared THEN lmp_args ELSE Device_lmp_args
    /\ device' = [computer EXCEPT
                    !.lmp_args.own = IF shared THEN @ ELSE lmp_args]
    /\ IF computer.slurm
       THEN /\ fs' = store_jobscript(
                        fs, gen_jobscript(exec_list, computer.slurm_args),
                        path)
            /\ jobs' = Append(jobs, [argv |-> <<"sbatch">>, path |-> path,
                                     output |-> output])
            /\ ret' = IF digits = <<>>
                      THEN [call EXCEPT !.exc = "IndexError"]
                      ELSE [call EXCEPT !.value = ToInt(digits)]
            /\ UNCHANGED procs
       ELSE IF found
       THEN /\ procs' = Append(procs, [via |-> NoneType, dir |-> here,
                                       argv |-> exec_list])
            /\ ret' = [call EXCEPT !.value = 100 + Len(procs')]
            /\ UNCHANGED <<fs, jobs>>
       ELSE /\ ret' = [call EXCEPT !.exc = "FileNotFoundError"]
            /\ UNCHANGED <<fs, procs, jobs>>

\* Custom.__call__(lmp_script, lmp_var, stdout, stderr) of computer.py, in
\* the directory the caller has changed to
Custom__call__(lmp_script, lmp_var, output, found) ==
    /\ device.cls = "Custom"
    /\ steps' = steps + 1
    /\ Custom__call__body(device, lmp_script, lmp_var, output, found, <<".">>)
    /\ UNCHANGED <<ctor, cwd, vashishta_vars, findall_vars, dir_vars>>

NextDevice ==
    /\ steps < MaxSteps
    /\ ret.exc # "SystemExit"
    /\ UNCHANGED run_vars
    /\ \/ \E kwargs \in Kwargs("Device") : new_Device(kwargs)
       \/ \E kwargs \in Kwargs("Custom") : new_Custom(kwargs)
       \/ \E kwargs \in Kwargs("CPU") : new_CPU(kwargs)
       \/ \E kwargs \in Kwargs("GPU") : \E mode \in Modes :
              new_GPU(kwargs, mode)
       \/ \E kwargs \in Kwargs("SlurmCPU") : new_SlurmCPU(kwargs)
       \/ \E kwargs \in Kwargs("SlurmGPU") : \E mode \in Modes :
              new_SlurmGPU(kwargs, mode)
       \/ \E lmp_script \in Scripts : \E lmp_var \in LmpVars :
          \E output \in SbatchOutputs : \E found \in BOOLEAN :
              Device__call__(lmp_script, lmp_var, output, found)
       \/ \E lmp_script \in Scripts : \E lmp_var \in LmpVars :
          \E output \in SbatchOutputs : \E found \in BOOLEAN :
              Custom__call__(lmp_script, lmp_var, output, found)

(***************************************************************************)
(* Working directories: Simulator.__init__ and Simulator._make_dir.  A     *)
(* path is a string of characters.  Constructions run as processes that    *)
(* interleave at the calls of the operating system: one os.makedirs, one   *)
(* remote mkdir command.                                                   *)
(***************************************************************************)
Sims == 1..MaxSims

\* the directories handed to the constructors
SimDirs == {NoneType, <<"s">>, <<"h", ":", "s">>}

\* how a remote mkdir command can end: it ran on the host, the connection
\* was refused, or the host denied the permission
SshOutcomes == {"ran", "refused", "denied"}

\* "x" in directory
In(x, string) == \E i \in 1..Len(string) : string[i] = x

\* directory.split(":"), for a directory with one ":"
split_colon(directory) ==
    LET i == CHOOSE k \in 1..Len(directory) : directory[k] = ":"
    IN  <<SubSeq(directory, 1, i - 1), SubSeq(directory, i + 1, Len(directory))>>

\* original_dir + f"_{ext}"
Candidate(original_dir, ext) == original_dir \o <<"_">> \o Digits(ext)

\* what the remote command writes to stderr, as words
stderr(outcome, present) ==
    CASE outcome = "ran" /\ ~ present -> <<>>
      [] outcome = "ran" /\ present ->
            <<"mkdir:", "cannot", "create", "directory", "File", "exists">>
      [] outcome = "refused" ->
            <<"ssh:", "connect", "to", "host", "Connection", "refused">>
      [] outcome = "denied" ->
            <<"mkdir:", "cannot", "create", "directory", "Permission",
              "denied">>

\* pattern in text
Contains(text, pattern) ==
    \E i \in 0..(Len(text) - Len(pattern)) :
        SubSeq(text, i + 1, i + Len(pattern)) = pattern

\* "File exists" in str(error), with every remote failure taken for it
FileExists_any(error) == error # <<>>

\* "File exists" in str(error)
FileExists(error) == Contains(error, <<"File", "exists">>)

\* _make_dir with a creation that accepts a directory already there
make_dir_exist_ok(dir_, host, local, remote, outcome) ==
    [exists |-> FALSE, created |-> TRUE, error |-> <<>>,
     local |-> IF host = NoneType THEN local \cup {dir_} ELSE local,
     remote |-> IF host = NoneType THEN remote ELSE remote \cup {dir_}]

\* Simulator._make_dir(dir_, host): what it returns, whether a directory was
\* created, what the remote command wrote to stderr, and the directories
\* afterwards
make_dir(dir_, host, local, remote, outcome) ==
    IF host = NoneType
    THEN IF dir_ \in local
         THEN [exists |-> TRUE, created |-> FALSE, error |-> <<>>,
               local |-> local, remote |-> remote]
         ELSE [exists |-> FALSE, created |-> TRUE, error |-> <<>>,
               local |-> local \cup {dir_}, remote |-> remote]
    ELSE LET present == dir_ \in remote
             error == stderr(outcome, present)
             made == outcome = "ran" /\ ~ present
         IN  [exists |-> FileExists(error), created |-> made,
              error |-> error, local |-> local,
              remote |-> IF made THEN remote \cup {dir_} ELSE remote]

\* the constructor ends after this attempt, with every attempt taken for one
\* of the numbered search
Ends_probing(overwrite, exists) == ~ exists

\* the constructor ends after this attempt: there is one attempt with
\* overwrite, and without it the loop runs while _make_dir returns True
Ends(overwrite, exists) == overwrite \/ ~ exists

\* a construction before it starts.  before: the directories of its target
\* when it started; among: the constructions running when it started;
\* tried: its attempts so far
NoSim ==
    [pc |-> "none", cls |-> "none", directory |-> NoneType,
     overwrite |-> FALSE, ssh |-> NoneType, wd |-> NoneType,
     original_dir |-> NoneType, ext |-> 0, before |-> {}, among |-> {},
     tried |-> <<>>]

InitDir ==
    /\ dirs = {}
    /\ hdirs = {}
    /\ sims = [p \in Sims |-> NoSim]

Running(p) == sims[p].pc = "make"

\* the constructions start in the order of their numbers
MayStart(p) ==
    /\ sims[p].pc = "none"
    /\ \A q \in Sims : q < p => sims[q].pc # "none"

\* Simulator(directory, overwrite) of simulator.py, up to its first _make_dir
Simulator__init__(p, directory, overwrite) ==
    LET remote == directory # NoneType /\ In(":", directory)
        ssh == IF remote THEN split_colon(directory)[1] ELSE NoneType
        wd0 == IF directory = NoneType THEN NoneType
               ELSE IF remote THEN split_colon(directory)[2] ELSE directory
    IN  /\ MayStart(p)
        /\ sims' = [sims EXCEPT ![p] =
                [pc |-> IF directory = NoneType THEN "done" ELSE "make",
                 cls |-> "simulator", directory |-> directory,
                 overwrite |-> overwrite, ssh |-> ssh, wd |-> wd0,
                 original_dir |-> wd0, ext |-> 0,
                 before |-> IF remote THEN hdirs ELSE dirs,
                 among |-> {q \in Sims : Running(q)}, tried |-> <<>>]]
        /\ UNCHANGED <<dirs, hdirs>>

\* Simulator(directory, overwrite) of __init__.py, up to its first os.makedirs
Simulator__init___0(p, directory, overwrite) ==
    /\ MayStart(p)
    /\ sims' = [sims EXCEPT ![p] =
            [pc |-> "make", cls |-> "__init__", directory |-> directory,
             overwrite |-> overwrite, ssh |-> NoneType, wd |-> directory,
             original_dir |-> directory, ext |-> 0, before |-> dirs,
             among |-> {q \in Sims : Running(q)}, tried |-> <<>>]]
    /\ UNCHANGED <<dirs, hdirs>>

\* one turn of the loop: a call of _make_dir (of os.makedirs in __init__.py)
\* and what follows it up to the next call, or up to the end of __init__
make(p, outcome) ==
    LET s == sims[p]
        r == make_dir(s.wd, s.ssh, dirs, hdirs, outcome)
        t == Append(s.tried,
                    [dir |-> s.wd, exists |-> r.exists,
                     created |-> r.created, error |-> r.error])
    IN  /\ Running(p)
        /\ dirs' = r.local
        /\ hdirs' = r.remote
        /\ sims' = [sims EXCEPT ![p] =
                IF Ends(s.overwrite, r.exists)
                THEN [s EXCEPT !.pc = "done", !.wd = s.wd \o <<"/">>,
                               !.tried = t]
                ELSE [s EXCEPT !.ext = s.ext + 1,
                               !.wd = Candidate(s.original_dir, s.ext + 1),
                               !.tried = t]]

NextDir ==
    \/ /\ \E p \in Sims, directory \in SimDirs, overwrite \in BOOLEAN :
              Simulator__init__(p, directory, overwrite)
       /\ UNCHANGED <<vashishta_vars, findall_vars, device_vars, run_vars>>
    \/ /\ \E p \in Sims, directory \in SimDirs \ {NoneType},
             overwrite \in BOOLEAN :
              Simulator__init___0(p, directory, overwrite)
       /\ UNCHANGED <<vashishta_vars, findall_vars, device_vars, run_vars>>
    \/ /\ \E p \in Sims, outcome \in SshOutcomes : make(p, outcome)
       /\ UNCHANGED <<vashishta_vars, findall_vars, device_vars, run_vars>>

(***************************************************************************)
(* The program.                                                            *)
(***************************************************************************)
\* no Simulator object yet (lmp_script "" is the attribute not being set),
\* and Python's own handler for SIGINT
NoSimulator ==
    [cls |-> "none", ssh |-> NoneType, wd |-> NoneType,
     sim_settings |-> EmptyDict, jobscript_string |-> NoJob,
     lmp_script |-> "", var |-> EmptyDict,
     called |-> [n |-> 0, op |-> "none", exc |-> "none"],
     ran |-> [n |-> 0, exc |-> "none", value |-> 0, by |-> "none"]]

default_int_handler == [pid |-> 0]

InitSimulator ==
    /\ simulator = NoSimulator
    /\ handler = default_int_handler
    /\ signals = <<>>

Init ==
    /\ water = water_parameters
    /\ silica = silica_parameters
    /\ sim = [params |-> "unset", param_file |-> "unset"]
    /\ wd = [header |-> FALSE, body |-> <<>>]
    /\ raised = [op |-> "none", substance |-> "none", params |-> EmptyDict,
                 exc |-> "none", stage |-> "none"]
    /\ calls = 0
    /\ passed = 0
    /\ label = <<>>
    /\ matches = [done |-> FALSE, list |-> <<>>]
    /\ InitDevice
    /\ InitDir
    /\ InitSimulator

\* Simulator.generate_parameter_file(substance, params=overrides)
generate_parameter_file(substance, overrides) ==
    LET call == [op |-> "generate_parameter_file", substance |-> substance,
                 params |-> overrides, exc |-> "none", stage |-> "done"]
    IN
    /\ calls' = calls + 1
    /\ passed' = passed + Size(overrides, 1)
    /\ UNCHANGED <<findall_vars, device_vars, dir_vars, run_vars>>
    /\ IF substance \notin {"water", "silica"}
       THEN /\ raised' = [call EXCEPT !.exc = "NotImplementedError",
                                      !.stage = "substance"]
            /\ UNCHANGED <<water, silica, sim, wd>>
       ELSE LET default == IF substance = "water" THEN water ELSE silica
                m == Merge([tbl |-> default, exc |-> "none"],
                           substance, overrides, 1)
                a == AppendTypes(m.tbl, 1, <<>>)
            IN  /\ water' = IF substance = "water" THEN m.tbl ELSE water
                /\ silica' = IF substance = "silica" THEN m.tbl ELSE silica
                /\ IF m.exc # "none"
                   THEN /\ sim' = [sim EXCEPT !.params = substance]
                        /\ raised' = [call EXCEPT !.exc = m.exc,
                                                  !.stage = "merge"]
                        /\ UNCHANGED wd
                   ELSE /\ sim' = [params |-> substance,
                                   param_file |-> "dest.vashishta"]
                        /\ wd' = [header |-> TRUE, body |-> a.body]
                        /\ raised' = IF a.exc # "none"
                                     THEN [call EXCEPT !.exc = a.exc,
                                                       !.stage = "serialize"]
                                     ELSE call

Next ==
    /\ calls < MaxCalls
    /\ \E substance \in Substances :
       \E overrides \in Overrides(MaxPassed - passed) :
           generate_parameter_file(substance, overrides)

Spec == Init /\ [][Next]_vars

\* the devices on their own
SpecDevice == Init /\ [][NextDevice]_vars

SpecDir == Init /\ [][NextDir]_vars

(***************************************************************************)
(* re.findall on its own: the label is any string of at most MaxLabelLen   *)
(* characters over the letters of the element symbols in use.              *)
(***************************************************************************)
Letters == {"H", "O", "S", "i"}

Labels == UNION {[1..n -> Letters] : n \in 0..MaxLabelLen}

InitSplit ==
    /\ water = water_parameters
    /\ silica = silica_parameters
    /\ sim = [params |-> "unset", param_file |-> "unset"]
    /\ wd = [header |-> FALSE, body |-> <<>>]
    /\ raised = [op |-> "none", substance |-> "none", params |-> EmptyDict,
                 exc |-> "none", stage |-> "none"]
    /\ calls = 0
    /\ passed = 0
    /\ label \in Labels
    /\ matches = [done |-> FALSE, list |-> <<>>]
    /\ InitDevice
    /\ InitDir
    /\ InitSimulator

\* prefix_list = re.findall('[A-Z][^A-Z]*', name)
re_findall ==
    /\ ~ matches.done
    /\ matches' = [done |-> TRUE, list |-> findall(label)]
    /\ UNCHANGED <<label, vashishta_vars, device_vars, dir_vars, run_vars>>

NextSplit == re_findall

SpecSplit == InitSplit /\ [][NextSplit]_vars

(***************************************************************************)
(* Running simulations with lammps_simulator/__init__.py: Simulator.run,   *)
(* Simulator.run_custom and the SIGINT handler that kill_lammps installs.  *)
(***************************************************************************)
\* what the process does on an interrupt
SIGTERM(pid) == [do |-> "SIGTERM", pid |-> pid]
KeyboardInterrupt == [do |-> "KeyboardInterrupt", pid |-> 0]

\* raising before the signal is sent
signal_handler_raising(pid) == <<KeyboardInterrupt>>

\* signal_handler(sig, frame) of kill_lammps(pid)
signal_handler(pid) == <<SIGTERM(pid), KeyboardInterrupt>>

\* kill_lammps(pid): signal.signal(signal.SIGINT, signal_handler)
kill_lammps(pid) == [pid |-> pid]

\* Simulator("sim", overwrite=True) of lammps_simulator/__init__.py
Simulator_0 ==
    [NoSimulator EXCEPT !.cls = "__init__", !.wd = <<"s", "i", "m", "/">>]

InitRun ==
    /\ water = water_parameters
    /\ silica = silica_parameters
    /\ sim = [params |-> "unset", param_file |-> "unset"]
    /\ wd = [header |-> FALSE, body |-> <<>>]
    /\ raised = [op |-> "none", substance |-> "none", params |-> EmptyDict,
                 exc |-> "none", stage |-> "none"]
    /\ calls = 0
    /\ passed = 0
    /\ label = <<>>
    /\ matches = [done |-> FALSE, list |-> <<>>]
    /\ InitDevice
    /\ InitDir
    /\ simulator = Simulator_0
    /\ handler = default_int_handler
    /\ signals = <<>>

\* set_input_script(filename, copy=False, **var)
set_input_script(filename, var) ==
    /\ simulator' = [simulator EXCEPT !.var = var, !.lmp_script = filename]
    /\ UNCHANGED <<handler, signals>>
    /\ UNCHANGED <<vashishta_vars, findall_vars, device_vars, dir_vars>>

\* the lines of run and of run_custom from os.getcwd() on, with the computer
\* given: an exception leaves the process in self.wd
run_body(computer, output, found) ==
    LET call == [n |-> simulator.ran.n + 1, exc |-> "none", value |-> 0,
                 by |-> "computer"]
    IN  IF simulator.lmp_script = ""
        THEN \* self.lmp_script is not an attribute yet
             /\ simulator' = [simulator EXCEPT
                                !.ran = [call EXCEPT !.exc = "AttributeError"]]
             /\ cwd' = Append(cwd, simulator.wd)
             /\ device' = computer
             /\ UNCHANGED <<Device_lmp_args, fs, procs, jobs, ret, handler>>
        ELSE /\ Custom__call__body(computer, simulator.lmp_script,
                                   simulator.var, output, found, simulator.wd)
             /\ simulator' = [simulator EXCEPT
                                !.ran = [call EXCEPT !.exc = ret'.exc,
                                                     !.value = ret'.value]]
             /\ cwd' = IF ret'.exc = "none"
                       THEN cwd ELSE Append(cwd, simulator.wd)
             /\ handler' = IF ret'.exc = "none" /\ computer.slurm = FALSE
                           THEN kill_lammps(ret'.value) ELSE handler

\* Simulator.run(computer) of lammps_simulator/__init__.py, the computer
\* being the Custom object last constructed
Simulator_run_0(output, found) ==
    /\ simulator.cls = "__init__"
    /\ device.cls = "Custom"
    /\ steps' = steps + 1
    /\ run_body(device, output, found)
    /\ UNCHANGED <<ctor, signals, vashishta_vars, findall_vars, dir_vars>>

\* Simulator.run_custom(kwargs) of lammps_simulator/__init__.py
Simulator_run_custom_0(kwargs, output, found) ==
    /\ simulator.cls = "__init__"
    /\ steps' = steps + 1
    /\ ctor' = [n |-> ctor.n + 1, cls |-> "Custom", dir |-> kwargs.dir,
                mode |-> "none", exc |-> "none"]
    /\ run_body(Custom__init__(kwargs).self, output, found)
    /\ UNCHANGED <<signals, vashishta_vars, findall_vars, dir_vars>>

\* the user interrupts the process: the handler installed for SIGINT runs
SIGINT ==
    /\ signals' = IF handler = default_int_handler
                  THEN <<KeyboardInterrupt>>
                  ELSE signal_handler(handler.pid)
    /\ UNCHANGED <<simulator, handler>>
    /\ UNCHANGED <<vashishta_vars, findall_vars, device_vars, dir_vars>>

NextRun ==
    /\ signals = <<>>
    /\ \/ \E filename \in Scripts : \E var \in LmpVars :
              set_input_script(filename, var)
       \/ SIGINT
       \/ /\ steps < MaxSteps
          /\ \/ \E kwargs \in Kwargs("Custom") :
                    new_Custom(kwargs) /\ UNCHANGED run_vars
             \/ \E output \in SbatchOutputs : \E found \in BOOLEAN :
                    Simulator_run_0(output, found)
             \/ \E kwargs \in Kwargs("Custom") :
                \E output \in SbatchOutputs : \E found \in BOOLEAN :
                    Simulator_run_custom_0(kwargs, output, found)

SpecRun == InitRun /\ [][NextRun]_vars

(***************************************************************************)
(* Running simulations with lammps_simulator/simulator.py: Simulator.run,  *)
(* set_run_settings, pre_generate_jobscript and add_to_jobscript.          *)
(***************************************************************************)
\* Simulator(directory, overwrite=True) of simulator.py, directory being
\* "sim" or "h:sim"
Simulator_1(directory) ==
    LET parts == IF In(":", directory) THEN split_colon(directory)
                 ELSE <<NoneType, directory>>
    IN  [NoSimulator EXCEPT
           !.cls = "simulator", !.ssh = parts[1], !.wd = parts[2] \o <<"/">>,
           !.sim_settings = DictOf(<< <<"dir", directory>> >>)]

InitSim ==
    /\ water = water_parameters
    /\ silica = silica_parameters
    /\ sim = [params |-> "unset", param_file |-> "unset"]
    /\ wd = [header |-> FALSE, body |-> <<>>]
    /\ raised = [op |-> "none", substance |-> "none", params |-> EmptyDict,
                 exc |-> "none", stage |-> "none"]
    /\ calls = 0
    /\ passed = 0
    /\ label = <<>>
    /\ matches = [done |-> FALSE, list |-> <<>>]
    /\ InitDevice
    /\ InitDir
    /\ simulator \in {Simulator_1(<<"s", "i", "m">>),
                      Simulator_1(<<"h", ":", "s", "i", "m">>)}
    /\ handler = default_int_handler
    /\ signals = <<>>

\* the keyword arguments given to run and to pre_generate_jobscript
RunKwargs ==
    {EmptyDict,
     DictOf(<< <<"lmp_exec", "lmp">>, <<"num_procs", 4>> >>),
     DictOf(<< <<"num_procs", 2>>, <<"lmp_exec", "lmp">>,
               <<"slurm", TRUE>>, <<"slurm_args", OwnSlurmArgs>> >>)}

\* the keyword arguments of the devices given to run
DeviceKwargs ==
    {Defaults(<<"s", "i", "m">>),
     [Defaults(<<"s", "i", "m">>) EXCEPT !.slurm = TRUE]}

\* the strings given to add_to_jobscript
Lines == {"echo done"}

\* set_run_settings(kwargs): self.sim_settings | kwargs
set_run_settings(sim_settings, kwargs) == DictMerge(sim_settings, kwargs, 1)

\* the parameters of Device.__init__
DeviceParameters ==
    {"num_procs", "lmp_exec", "lmp_args", "slurm", "slurm_args",
     "write_jobscript", "jobname", "job", "dir", "execute"}

\* d.get(key, default)
Get(d, key, default) == IF key \in Range(d.keys) THEN d.val[key] ELSE default

\* self.Device on self.sim_settings as keyword arguments
Device_of(sim_settings) ==
    LET kwargs ==
            [dir |-> Get(sim_settings, "dir", NoneType),
             slurm |-> Get(sim_settings, "slurm", FALSE),
             execute |-> Get(sim_settings, "execute", TRUE),
             write_jobscript |-> Get(sim_settings, "write_jobscript", TRUE),
             lmp_args |-> IF "lmp_args" \in Range(sim_settings.keys)
                          THEN [ref |-> "own",
                                own |-> sim_settings.val["lmp_args"]]
                          ELSE [ref |-> "default", own |-> EmptyDict],
             slurm_args |-> Get(sim_settings, "slurm_args", EmptyDict)]
        made == Device__init__("Device", kwargs)
    IN  IF ~ (Range(sim_settings.keys) \subseteq DeviceParameters)
        THEN \* an unexpected keyword argument
             [exc |-> "TypeError", self |-> NoDevice]
        ELSE [made EXCEPT
                !.self.num_procs = Get(sim_settings, "num_procs", 1),
                !.self.lmp_exec = Get(sim_settings, "lmp_exec", "lmp"),
                !.self.job = Get(sim_settings, "job", NoJob)]

\* pre_generate_jobscript(kwargs)
pre_generate_jobscript(kwargs) ==
    LET merged == DictMerge(DictOf(<< <<"lmp_args", EmptyDict>> >>),
                            set_run_settings(simulator.sim_settings, kwargs),
                            1)
        lmp_args == DictSet(merged.val["lmp_args"], "-in",
                            StrValue(<<simulator.lmp_script>>))
        sim_settings == DictSet(merged, "lmp_args", lmp_args)
        present == Range(sim_settings.keys)
        call == [n |-> simulator.called.n + 1,
                 op |-> "pre_generate_jobscript", exc |-> "none"]
    IN
    /\ simulator.cls = "simulator"
    /\ steps' = steps + 1
    /\ simulator' =
         IF simulator.lmp_script = ""
         THEN [simulator EXCEPT !.sim_settings = merged,
                                !.called = [call EXCEPT
                                              !.exc = "AttributeError"]]
         ELSE IF ~ ({"num_procs", "lmp_exec", "slurm_args"} \subseteq present)
         THEN [simulator EXCEPT !.sim_settings = sim_settings,
                                !.called = [call EXCEPT !.exc = "KeyError"]]
         ELSE [simulator EXCEPT
                 !.sim_settings = sim_settings,
                 !.called = call,
                 !.jobscript_string =
                     [set |-> TRUE,
                      text |-> gen_jobscript_string(
                                   get_exec_list(
                                       sim_settings.val["num_procs"],
                                       sim_settings.val["lmp_exec"],
                                       lmp_args, simulator.var),
                                   sim_settings.val["slurm_args"])]]
    /\ UNCHANGED <<handler, signals>>
    /\ UNCHANGED <<Device_lmp_args, device, ctor, fs, procs, jobs, cwd, ret>>
    /\ UNCHANGED <<vashishta_vars, findall_vars, dir_vars>>

\* add_to_jobscript(string, linebreak=True): the string continues the last
\* line, which the line break then ends
add_to_jobscript(string) ==
    LET text == simulator.jobscript_string.text
        call == [n |-> simulator.called.n + 1, op |-> "add_to_jobscript",
                 exc |-> "none"]
    IN
    /\ simulator.cls = "simulator"
    /\ steps' = steps + 1
    /\ simulator' =
         IF ~ simulator.jobscript_string.set
         THEN [simulator EXCEPT
                 !.called = [call EXCEPT !.exc = "AssertionError"]]
         ELSE [simulator EXCEPT
                 !.called = call,
                 !.jobscript_string.text =
                     [text EXCEPT ![Len(text)] = Append(@, string)]
                     \o << <<>> >>]
    /\ UNCHANGED <<handler, signals>>
    /\ UNCHANGED <<Device_lmp_args, device, ctor, fs, procs, jobs, cwd, ret>>
    /\ UNCHANGED <<vashishta_vars, findall_vars, dir_vars>>

\* Simulator.run(computer, device, stdout, stderr, **kwargs) of simulator.py;
\* given says whether device (or computer) is the Device object last
\* constructed or neither is given
Simulator_run(given, kwargs, output, found) ==
    LET sim_settings ==
            DictSet(set_run_settings(simulator.sim_settings, kwargs),
                    "jobscript_string", simulator.jobscript_string)
        made == IF given THEN [exc |-> "none", self |-> device]
                ELSE Device_of(sim_settings)
        call == [n |-> simulator.ran.n + 1, exc |-> "none", value |-> 0,
                 by |-> IF given THEN "device" ELSE "settings"]
        Ended(exc) ==
            /\ simulator' = [simulator EXCEPT
                               !.sim_settings = sim_settings,
                               !.ran = [call EXCEPT !.exc = exc]]
            /\ UNCHANGED <<Device_lmp_args, device, fs, procs, jobs, cwd, ret>>
    IN
    /\ simulator.cls = "simulator"
    /\ given => device.cls \notin {"none", "Custom"}
    /\ steps' = steps + 1
    /\ IF made.exc # "none" THEN Ended(made.exc)
       ELSE IF simulator.lmp_script = "" THEN Ended("AttributeError")
       ELSE /\ Device__call__body(made.self, simulator.lmp_script,
                                  simulator.var, output, found)
            /\ simulator' = [simulator EXCEPT
                               !.sim_settings = sim_settings,
                               !.ran = [call EXCEPT !.exc = ret'.exc,
                                                    !.value = ret'.value]]
    /\ UNCHANGED <<ctor, handler, signals>>
    /\ UNCHANGED <<vashishta_vars, findall_vars, dir_vars>>

NextSim ==
    /\ ret.exc # "SystemExit"
    /\ \/ \E var \in LmpVars : set_input_script("in.lammps", var)
       \/ /\ steps < MaxSteps
          /\ \/ \E kwargs \in DeviceKwargs :
                    new_Device(kwargs) /\ UNCHANGED run_vars
             \/ \E kwargs \in RunKwargs : pre_generate_jobscript(kwargs)
             \/ \E string \in Lines : add_to_jobscript(string)
             \/ \E given \in BOOLEAN : \E kwargs \in RunKwargs :
                \E output \in SbatchOutputs : \E found \in BOOLEAN :
                    Simulator_run(given, kwargs, output, found)

SpecSim == InitSim /\ [][NextSim]_vars

(***************************************************************************)
(* Vocabulary of the properties.                                           *)
(***************************************************************************)
TableOf(w, s, substance) == IF substance = "water" THEN w ELSE s

DefaultOf(substance) ==
    IF substance = "water" THEN water_parameters ELSE silica_parameters

\* the last step was a generate_parameter_file call on a known substance
Called(r) ==
    r.op = "generate_parameter_file" /\ r.substance \in {"water", "silica"}

\* the override items <<i, j, k>>: entry i, its j-th comma-separated label,
\* its k-th coefficient; iteration order is the lexicographic order
Items(ov) ==
    UNION {UNION {{<<i, j, k>> : k \in DOMAIN ov.val[ov.keys[i]].keys} :
                  j \in DOMAIN split(ov.keys[i], ",")} :
           i \in DOMAIN ov.keys}

Before(t, u) ==
    \/ t[1] < u[1]
    \/ t[1] = u[1] /\ t[2] < u[2]
    \/ t[1] = u[1] /\ t[2] = u[2] /\ t[3] < u[3]

ItemLabel(ov, t) == Intern(split(ov.keys[t[1]], ",")[t[2]])
ItemKey(ov, t) == ov.val[ov.keys[t[1]]].keys[t[3]]
ItemValue(ov, t) == ov.val[ov.keys[t[1]]].val[ItemKey(ov, t)]

GlobalNames(substance) ==
    IF substance = "water" THEN {"Z_H", "Z_O"} ELSE {"Z_Si", "Z_O"}

\* the triples whose Zi and Zj carry the charges of the substance
ChargeTriples(substance) ==
    IF substance = "water" THEN {"HHH", "OOO", "HOO", "OHH"}
    ELSE {"SiSiSi", "OOO", "SiOO", "OSiSi"}

UnknownGlobal(substance, ov) ==
    \E t \in Items(ov) :
        ItemLabel(ov, t) = "global" /\ ItemKey(ov, t) \notin GlobalNames(substance)

AbsentLabel(tbl, ov) ==
    \E t \in Items(ov) :
        ItemLabel(ov, t) \notin {"all", "global"} \cup Range(tbl.keys)

\* 2 * x + y = 0 on numbers
TwiceAndSumZero(x, y) == 2 * x[1] * Pow10(y[2]) + y[1] * Pow10(x[2]) = 0

\* new is old with exactly the pairs of DOMAIN asg set to asg's values
Frame(old, new, asg) ==
    /\ new.keys = old.keys
    /\ \A L \in Range(old.keys) :
        /\ DOMAIN new.val[L] =
               DOMAIN old.val[L] \cup {q[2] : q \in {r \in DOMAIN asg : r[1] = L}}
        /\ \A c \in DOMAIN new.val[L] :
               new.val[L][c] = IF <<L, c>> \in DOMAIN asg THEN asg[<<L, c>>]
                               ELSE old.val[L][c]

(***************************************************************************)
(* C1.  An override keyed by a single triple label T of the substance's    *)
(* table sets exactly the named coefficients of T to the given values;     *)
(* every other coefficient of T, every other triple and the other          *)
(* substance's table keep the values they had before the call.             *)
(***************************************************************************)
C1_Step ==
    \A T \in Names \ {"all", "global"} :
        (/\ Called(raised')
         /\ raised'.params.keys = <<Chars[T]>>
         /\ T \in Range(TableOf(water, silica, raised'.substance).keys))
        => LET sub == raised'.substance
               parameters == raised'.params.val[Chars[T]]
               asg == [q \in {<<T, c>> : c \in Range(parameters.keys)} |->
                          parameters.val[q[2]]]
           IN  /\ Frame(TableOf(water, silica, sub),
                        TableOf(water', silica', sub), asg)
               /\ sub = "water" => silica' = silica
               /\ sub = "silica" => water' = water

C1_SingleTripleOverride == [][C1_Step]_vars

C1_Witness ==
    /\ Called(raised)
    /\ raised.stage # "merge"
    /\ raised.params.keys = <<Chars["OOO"]>>
    /\ LET parameters == raised.params.val[Chars["OOO"]]
       IN  /\ parameters.keys = <<"Zi">>
           /\ TableOf(water, silica, raised.substance).val["OOO"]["Zi"]
                  = parameters.val["Zi"]

(***************************************************************************)
(* C2.  The table a call produces gives every (triple, coefficient) pair   *)
(* that the call's own override mapping does not name its hard-coded       *)
(* default value: nothing persists from an earlier call.                   *)
(***************************************************************************)
NamedBy(ov, L, c) ==
    \E t \in Items(ov) :
        \/ ItemLabel(ov, t) = "global" /\ c \in {"Zi", "Zj"}
        \/ ItemLabel(ov, t) = "all" /\ c = ItemKey(ov, t)
        \/ ItemLabel(ov, t) = L /\ c = ItemKey(ov, t)

C2_NoPersistence ==
    Called(raised) =>
        LET tbl == TableOf(water, silica, raised.substance)
            default == DefaultOf(raised.substance)
        IN  \A L \in Range(default.keys) :
            \A c \in DOMAIN default.val[L] :
                ~ NamedBy(raised.params, L, c)
                    => tbl.val[L][c] = default.val[L][c]

(***************************************************************************)
(* C3.  An "all" override {c: v} sets coefficient c to v on every triple   *)
(* of the substance's table and changes no other coefficient.              *)
(***************************************************************************)
C3_Step ==
    (/\ Called(raised')
     /\ raised'.params.keys = <<Chars["all"]>>)
    => LET sub == raised'.substance
           old == TableOf(water, silica, sub)
           parameters == raised'.params.val[Chars["all"]]
           asg == [q \in Range(old.keys) \X Range(parameters.keys) |->
                      parameters.val[q[2]]]
       IN  Frame(old, TableOf(water', silica', sub), asg)

C3_AllSetsEveryTriple == [][C3_Step]_vars

(***************************************************************************)
(* C4.  On water, "global" {Z_H: v} gives Z_O = -2v and (Zi, Zj) = (v, v)  *)
(* on HHH, (Z_O, Z_O) on OOO, (v, Z_O) on HOO, (Z_O, v) on OHH; "global"   *)
(* {Z_O: w} gives Z_H = -w/2 with the same convention; Z_H = 0.5 gives     *)
(* Z_O = -1.0; nothing else changes.                                       *)
(***************************************************************************)
Charges(Z_H, Z_O) ==
    (<<"HHH", "Zi">> :> Z_H) @@ (<<"HHH", "Zj">> :> Z_H) @@
    (<<"OOO", "Zi">> :> Z_O) @@ (<<"OOO", "Zj">> :> Z_O) @@
    (<<"HOO", "Zi">> :> Z_H) @@ (<<"HOO", "Zj">> :> Z_O) @@
    (<<"OHH", "Zi">> :> Z_O) @@ (<<"OHH", "Zj">> :> Z_H)

C4_Step ==
    (/\ Called(raised')
     /\ raised'.substance = "water"
     /\ raised'.params.keys = <<Chars["global"]>>
     /\ Len(raised'.params.val[Chars["global"]].keys) = 1
     /\ raised'.params.val[Chars["global"]].keys[1] \in {"Z_H", "Z_O"})
    => LET parameters == raised'.params.val[Chars["global"]]
           key == parameters.keys[1]
           value == parameters.val[key]
           Z_H == IF key = "Z_H" THEN value ELSE water'.val["HHH"]["Zi"]
           Z_O == IF key = "Z_O" THEN value ELSE water'.val["OOO"]["Zi"]
       IN  /\ raised'.stage # "merge"
           /\ TwiceAndSumZero(Z_H, Z_O)
           /\ Z_H = <<5, 1, "float">> => Z_O = <<-1, 0, "float">>
           /\ Frame(water, water', Charges(Z_H, Z_O))
           /\ silica' = silica

C4_WaterGlobalCharges == [][C4_Step]_vars

C4_Witness ==
    /\ Called(raised)
    /\ raised.substance = "water"
    /\ raised.params.keys = <<Chars["global"]>>
    /\ raised.params.val[Chars["global"]].keys = <<"Z_H">>
    /\ raised.params.val[Chars["global"]].val["Z_H"] = <<5, 1, "float">>
    /\ water.val["OOO"]["Zi"] = <<-1, 0, "float">>
    /\ water.val["OHH"]["Zj"] = <<5, 1, "float">>

(***************************************************************************)
(* C5.  Overrides are applied on top of the loaded table in iteration      *)
(* order (entries in mapping order, the comma-separated labels of a key    *)
(* left to right): every pair ends with the value of the latest assignment *)
(* made to it, and the merge reports no conflict.  "all" is     *)
(* taken to assign on the triples it acts on (C3 is about which those      *)
(* are).                                                                   *)
(***************************************************************************)
ItemRecs(ov) ==
    {[pos |-> t, label |-> ItemLabel(ov, t), key |-> ItemKey(ov, t),
      value |-> ItemValue(ov, t)] : t \in Items(ov)}

Assigns(substance, r, L, c) ==
    IF r.label = "global" THEN L \in ChargeTriples(substance) /\ c \in {"Zi", "Zj"}
    ELSE IF r.label = "all" THEN L \in ChargeTriples(substance) /\ c = r.key
    ELSE r.label = L /\ c = r.key

\* the triples and the coefficients assignment r is about
Targets(substance, r) ==
    IF r.label \in {"all", "global"} THEN ChargeTriples(substance) ELSE {r.label}

Targeted(r) == IF r.label = "global" THEN {"Zi", "Zj"} ELSE {r.key}

\* the element a global charge name is about
ElementOf(key) ==
    IF key = "Z_H" THEN <<"H">> ELSE IF key = "Z_O" THEN <<"O">> ELSE <<"S", "i">>

\* the element with two atoms in the formula unit: H2O, SiO2
TwoAtoms(substance) == IF substance = "water" THEN <<"H">> ELSE <<"O">>

\* x is what assignment r gives the pair (L, c): Zi is the charge of the
\* triple's first element, Zj of its second; the formula unit is neutral
Assigned(substance, r, L, c, x) ==
    IF r.label # "global" THEN x = r.value
    ELSE LET el == findall(Chars[L])[IF c = "Zi" THEN 1 ELSE 2]
         IN  IF el = ElementOf(r.key) THEN x = r.value
             ELSE IF ElementOf(r.key) = TwoAtoms(substance)
                  THEN TwiceAndSumZero(r.value, x)
                  ELSE TwiceAndSumZero(x, r.value)

C5_Step ==
    (/\ Called(raised')
     /\ ~ UnknownGlobal(raised'.substance, raised'.params)
     /\ ~ AbsentLabel(TableOf(water, silica, raised'.substance), raised'.params))
    => LET sub == raised'.substance
           new == TableOf(water', silica', sub)
           recs == ItemRecs(raised'.params)
       IN  /\ raised'.stage # "merge"
           /\ \A r \in recs :
              \A L \in Targets(sub, r) :
              \A c \in Targeted(r) :
                 (\A u \in recs : Before(u.pos, r.pos) \/ u = r
                                      \/ ~ Assigns(sub, u, L, c))
                 => /\ c \in DOMAIN new.val[L]
                    /\ Assigned(sub, r, L, c, new.val[L][c])

C5_LastWriteWins == [][C5_Step]_vars

C5_Witness ==
    /\ Called(raised)
    /\ raised.stage # "merge"
    /\ raised.params.keys = <<Chars["global"], Chars["OOO"]>>
    /\ raised.params.val[Chars["global"]].keys = <<"Z_O">>
    /\ raised.params.val[Chars["OOO"]].keys = <<"Zi">>
    /\ raised.params.val[Chars["global"]].val["Z_O"]
           # raised.params.val[Chars["OOO"]].val["Zi"]
    /\ TableOf(water, silica, raised.substance).val["OOO"]["Zi"]
           = raised.params.val[Chars["OOO"]].val["Zi"]

(***************************************************************************)
(* C6.  For a default table, serialization writes per triple two lines:    *)
(* the prefix tokens and H, eta, Zi, Zj, r1s, D, r4s, then W, rc, B, xi,   *)
(* r0, C, cos(theta); each block carries each of the 14 coefficients of    *)
(* the triple's table entry exactly once.                                  *)
(***************************************************************************)
Values7(entry, param_suffices) == [k \in 1..7 |-> entry[param_suffices[k]]]

C6_TwoLinesPerTriple ==
    (/\ Called(raised)
     /\ raised.stage \in {"serialize", "done"}
     /\ TableOf(water, silica, raised.substance) = DefaultOf(raised.substance))
    => LET tbl == DefaultOf(raised.substance)
           carried == params_line1 \o params_line2
       IN  /\ \A L \in Range(tbl.keys) :
                 /\ Cardinality(DOMAIN tbl.val[L]) = 14
                 /\ \A c \in DOMAIN tbl.val[L] :
                       Cardinality({k \in DOMAIN carried : carried[k] = c}) = 1
           /\ raised.exc = "none"
           /\ Len(wd.body) = 3 * Len(tbl.keys)
           /\ \A i \in DOMAIN tbl.keys :
                 LET L == tbl.keys[i]
                 IN  /\ wd.body[3 * i - 2] = <<"\n">>
                     /\ wd.body[3 * i - 1] =
                            JoinParams(StrTokens(findall(Chars[L]))
                                         \o Values7(tbl.val[L], params_line1), <<>>)
                     /\ wd.body[3 * i] =
                            JoinParams(Values7(tbl.val[L], params_line2),
                                       Spaces(Len(Chars[L]) + 6))

(***************************************************************************)
(* C7.  Serialization emits one block per table entry in the table's       *)
(* iteration order: the default triples in definition order, then every    *)
(* triple label first introduced by an override, which is added to the     *)
(* table after the defaults.                                               *)
(***************************************************************************)
StartsWith(string, prefix) ==
    Len(string) >= Len(prefix) /\ SubSeq(string, 1, Len(prefix)) = prefix

C7_BlocksInTableOrder ==
    (Called(raised) /\ ~ UnknownGlobal(raised.substance, raised.params))
    => LET tbl == TableOf(water, silica, raised.substance)
           default == DefaultOf(raised.substance)
       IN  /\ \A r \in ItemRecs(raised.params) :
                 r.label \notin {"all", "global"} => r.label \in Range(tbl.keys)
           /\ StartsWith(tbl.keys, default.keys)
           /\ Len(wd.body) = 3 * Len(tbl.keys)
           /\ \A i \in DOMAIN tbl.keys :
                 StartsWith(wd.body[3 * i - 1], findall(Chars[tbl.keys[i]])[1])

(***************************************************************************)
(* C10.  The merge accepts a coefficient name outside the 14-name          *)
(* vocabulary and stores it in the table; the merge fails only for an      *)
(* absent triple label or an unknown global name.  An error about          *)
(* coefficient names arises only during serialization, and exactly when    *)
(* one of the 14 expected names is absent from a triple's entry.           *)
(***************************************************************************)
Vocabulary == Range(params_line1) \cup Range(params_line2)

IsSymbol(cs) ==
    /\ cs # <<>>
    /\ cs[1] \in Upper
    /\ \A i \in 2..Len(cs) : cs[i] \notin Upper

\* the labels that are three element symbols one after the other
ThreeSymbols(cs) ==
    \E i, j \in 1..Len(cs) :
        /\ i < j
        /\ IsSymbol(SubSeq(cs, 1, i))
        /\ IsSymbol(SubSeq(cs, i + 1, j))
        /\ IsSymbol(SubSeq(cs, j + 1, Len(cs)))

RECURSIVE Concat(_)
Concat(list) == IF list = <<>> THEN <<>> ELSE list[1] \o Concat(Tail(list))

C8_SplitOnCapitals ==
    matches.done =>
        /\ label = <<"S", "i", "O", "O">>
               => matches.list = << <<"S", "i">>, <<"O">>, <<"O">> >>
        /\ ThreeSymbols(label) =>
               /\ Len(matches.list) = 3
               /\ \A k \in 1..3 : IsSymbol(matches.list[k])
               /\ Concat(matches.list) = label

C8_Witness ==
    /\ matches.done
    /\ label = <<"S", "i", "O", "O">>
    /\ Len(matches.list) = 3

(***************************************************************************)
(* C9.  An unknown substance and an unknown "global" name given to         *)
(* generate_parameter_file, and an unknown mode given to the constructor   *)
(* of a GPU or SlurmGPU device, each raise NotImplementedError; no         *)
(* parameter file is written, no process is launched and no job is         *)
(* submitted.  (An override mapping is taken to name no absent label, so   *)
(* that the unknown global name is what the merge meets.)                  *)
(***************************************************************************)
C9_Step ==
    /\ (/\ calls' = calls + 1
        /\ \/ raised'.substance \notin {"water", "silica"}
           \/ /\ UnknownGlobal(raised'.substance, raised'.params)
              /\ ~ AbsentLabel(TableOf(water, silica, raised'.substance),
                               raised'.params))
       => /\ raised'.exc = "NotImplementedError"
          /\ UNCHANGED <<wd, fs, procs, jobs>>
    /\ (/\ ctor'.n = ctor.n + 1
        /\ ctor'.cls \in {"GPU", "SlurmGPU"}
        /\ ctor'.mode \notin {"kokkos", "gpu"})
       => /\ ctor'.exc = "NotImplementedError"
          /\ UNCHANGED <<wd, fs, procs, jobs>>

C9_UnknownNamesRaise == [][C9_Step]_vars

(***************************************************************************)
(* Working directories: vocabulary of the properties.                      *)
(***************************************************************************)
\* the construction has ended and holds a working directory
Done(p) == sims[p].pc = "done" /\ sims[p].directory # NoneType

\* the directory the construction adopted: self.wd without its final "/"
Adopted(p) == SubSeq(sims[p].wd, 1, Len(sims[p].wd) - 1)

\* the i-th path of the numbered sequence path, path_1, path_2, ...
Numbered(p, i) ==
    IF i = 1 THEN sims[p].original_dir
    ELSE Candidate(sims[p].original_dir, i - 1)

\* the constructions up to p ran one after the other, without overwrite, on
\* the base path of p
Consecutive(p) ==
    \A q \in 1..p :
          /\ Done(q)
          /\ sims[q].among = {}
          /\ ~ sims[q].overwrite
          /\ sims[q].directory = sims[p].directory
          /\ sims[q].ssh = sims[p].ssh

\* C11: a construction without overwrite tries path, path_1, path_2, ... in
\* this order and adopts the first one whose creation succeeds; the
\* directory it adopts did not exist before the call; and the p-th of p
\* consecutive constructions on one base path, absent at first, adopts
\* the p-th path of the sequence.
C11_NumberedProbing ==
    \A p \in Sims :
        LET s == sims[p]
            n == Len(s.tried)
        IN  (s.pc # "none" /\ ~ s.overwrite) =>
               /\ \A i \in 1..n : s.tried[i].dir = Numbered(p, i)
               /\ \A i \in 1..(n - 1) : ~ s.tried[i].created
               /\ Done(p) =>
                     /\ s.tried[n].created
                     /\ Adopted(p) = s.tried[n].dir
                     /\ Adopted(p) \notin s.before
                     /\ Consecutive(p) => Adopted(p) = Numbered(p, p)

\* the path the caller gave: the part after the host for a remote target
GivenPath(p) ==
    IF sims[p].cls = "simulator" /\ In(":", sims[p].directory)
    THEN split_colon(sims[p].directory)[2]
    ELSE sims[p].directory

\* C12: a construction with overwrite=True adopts exactly the given path,
\* after one attempt to create it, whether the directory existed before or
\* not: the answer 'already exists' is ignored.
C12_OverwriteAdoptsGivenPath ==
    \A p \in Sims :
        (Done(p) /\ sims[p].overwrite) =>
            /\ Len(sims[p].tried) = 1
            /\ sims[p].tried[1].dir = GivenPath(p)
            /\ Adopted(p) = GivenPath(p)
            /\ sims[p].wd = GivenPath(p) \o <<"/">>

\* a construction with overwrite=True has adopted a directory that existed
C12_Witness ==
    \E p \in Sims :
        /\ Done(p)
        /\ sims[p].overwrite
        /\ sims[p].tried[1].exists
        /\ Adopted(p) \in sims[p].before
        /\ Adopted(p) = GivenPath(p)

\* C14: for a remote target an attempt counts as 'already exists' exactly
\* when the error text of the remote command contains "File exists"; an
\* attempt that failed with any other error text is taken for a creation:
\* it is the last attempt, and the constructor adopts its path although no
\* directory was created.
C14_RemoteFailureAdopted ==
    \A p \in Sims :
        sims[p].ssh # NoneType =>
            \A i \in 1..Len(sims[p].tried) :
                LET a == sims[p].tried[i]
                    named == Contains(a.error, <<"File", "exists">>)
                IN  /\ a.exists <=> named
                    /\ (a.error # <<>> /\ ~ named) =>
                           /\ ~ a.created
                           /\ i = Len(sims[p].tried)
                           /\ Done(p)
                           /\ Adopted(p) = a.dir

\* a construction without overwrite has adopted a remote path that the
\* refused command did not create and that is not on the host
C14_Witness ==
    \E p \in Sims :
        /\ Done(p)
        /\ sims[p].ssh # NoneType
        /\ ~ sims[p].overwrite
        /\ sims[p].tried[Len(sims[p].tried)].error # <<>>
        /\ ~ sims[p].tried[Len(sims[p].tried)].created
        /\ Adopted(p) \notin hdirs

\* the last attempt of a construction
LastTried(p) == sims[p].tried[Len(sims[p].tried)]

\* the two constructions, both without overwrite, were given one directory
\* and ran at the same time
Concurrent(p, q) ==
    /\ p # q
    /\ ~ sims[p].overwrite /\ ~ sims[q].overwrite
    /\ sims[p].pc # "none" /\ sims[q].pc # "none"
    /\ sims[p].directory = sims[q].directory
    /\ sims[p].ssh = sims[q].ssh
    /\ (q \in sims[p].among \/ p \in sims[q].among)

Calling == ret'.n = ret.n + 1

\* a process is launched in this step
Launching == Len(procs') = Len(procs) + 1

\* the process launched last
LastProc == procs[Len(procs)]

\* the last line of a jobscript
LastLine(text) == text[Len(text)]

\* the jobscript string is generated in this step
Generating == ~ device.job.set /\ device'.job.set

\* the per-tool flags of the device: the items of lmp_args but "-in"
Flags(d, shared) == DictWithout(Deref(d.lmp_args, shared), "-in")

\* C15: the argument sequence of a device call is "mpirun", "-n", the
\* process count as a string, the executable, the per-tool flags in mapping
\* order with the tokens of their values, then "-in" and the script of this
\* call, then the "-var" entries: "-in <script>" follows every flag and
\* precedes every "-var", on every call of a device object.
C15_Step ==
    Calling =>
        LET expected ==
                <<"mpirun", "-n", IntStr(device.num_procs), device.lmp_exec>>
                \o ArgTokens(Flags(device, Device_lmp_args), 1)
                \o <<"-in", ret'.lmp_script>>
                \o VarTokens(ret'.lmp_var, 1)
        IN  /\ Launching => procs'[Len(procs')].argv = expected
            /\ Generating => LastLine(device'.job.text) = expected

Position(seq, token) ==
    IF \E i \in 1..Len(seq) : seq[i] = token
    THEN CHOOSE i \in 1..Len(seq) :
            seq[i] = token /\ \A j \in 1..(i - 1) : seq[j] # token
    ELSE 0

Width(value) == IF value[1] = "list" THEN Len(value[2]) ELSE 1

\* where the tokens of the i-th variable start among the "-var" entries
RECURSIVE Offset(_, _)
Offset(lmp_var, i) ==
    IF i = 1 THEN 1
    ELSE Offset(lmp_var, i - 1)
         + 2 + Width(lmp_var.val[lmp_var.keys[i - 1]])

\* the tokens after "-in" and the script
AfterScript(argv) == SubSeq(argv, Position(argv, "-in") + 2, Len(argv))

\* C16: every execution variable gives one "-var" token followed by its
\* name and its value, one token for a scalar and one for each item of a
\* list, in mapping order; there are as many "-var" tokens as variables.
C16_Step ==
    (Calling /\ Launching) =>
        LET lmp_var == ret'.lmp_var
            n == Len(lmp_var.keys)
            tail == AfterScript(procs'[Len(procs')].argv)
        IN  /\ Len(tail) = Offset(lmp_var, n + 1) - 1
            /\ Cardinality({i \in 1..Len(tail) : tail[i] = "-var"}) = n
            /\ \A i \in 1..n :
                  LET at == Offset(lmp_var, i)
                      value == lmp_var.val[lmp_var.keys[i]]
                  IN  /\ tail[at] = "-var"
                      /\ tail[at + 1] = lmp_var.keys[i]
                      /\ \A j \in 1..Width(value) :
                            tail[at + 1 + j] =
                                IntStr(IF value[1] = "list" THEN value[2][j]
                                       ELSE value[2])

C16_VarEntries == [][C16_Step]_vars

\* a process was launched with the scalar T and the list S
C16_Witness ==
    /\ procs # <<>>
    /\ ret.exc = "none"
    /\ ret.value = 100 + Len(procs)
    /\ Len(ret.lmp_var.keys) = 2
    /\ AfterScript(LastProc.argv)
         = <<"-var", "T", "300", "-var", "S", "1", "2">>

\* C17: a per-tool flag whose value is a sequence of tokens is followed in
\* the argument sequence by exactly those tokens, as it would be for the
\* string of the tokens separated by spaces.
C17_Step ==
    (Calling /\ Launching) =>
        LET flags == Flags(device, Device_lmp_args)
            argv == procs'[Len(procs')].argv
        IN  \A key \in Range(flags.keys) :
                flags.val[key][1] = "list" =>
                    /\ SubSeq(argv, Position(argv, key) + 1,
                              Position(argv, key) + Len(flags.val[key][2]))
                          = flags.val[key][2]
                    /\ SubSeq(argv, Position(argv, key) + 1,
                              Position(argv, key) + Len(flags.val[key][2]))
                          = StrSplit(StrValue(flags.val[key][2]))

C17_SequenceValuedFlag == [][C17_Step]_vars

\* the jobscript written in this step, when one is: by Device.__call__ the
\* string it has just generated, by Custom.__call__ of computer.py the file
Written ==
    IF device.cls = "Custom"
    THEN {f.text : f \in fs' \ fs}
    ELSE IF Generating THEN {device'.job.text} ELSE {}

IsHeader(line) == line # <<>> /\ line[1] = "#SBATCH --"

\* the header line of the i-th setting
HeaderOf(slurm_args, i) ==
    LET key == slurm_args.keys[i]
    IN  IF slurm_args.val[key] = NoSetting THEN <<"#SBATCH --", key>>
        ELSE <<"#SBATCH --", key, "=", slurm_args.val[key][2]>>

\* the argument sequence of the call made in this step
ArgumentSequence ==
    get_exec_list(device.num_procs, device.lmp_exec,
                  DictSet(Deref(device.lmp_args, Device_lmp_args), "-in",
                          StrValue(<<ret'.lmp_script>>)),
                  ret'.lmp_var)

\* C18: a batch script starts with "#!/bin/bash"; its header lines are, in
\* mapping order, one for each settings entry, "#SBATCH --<key>=<value>" or
\* the bare "#SBATCH --<key>" when the value is None, and none for any other
\* key; its last line is the argument sequence.
C18_Step ==
    Calling =>
        \A text \in Written :
            /\ text[1] = <<"#!/bin/bash">>
            /\ SelectSeq(text, IsHeader)
                 = [i \in 1..Len(device.slurm_args.keys) |->
                        HeaderOf(device.slurm_args, i)]
            /\ LastLine(text) = ArgumentSequence

C18_BatchScript == [][C18_Step]_vars

\* C19: a call of a device that does not queue and whose execution is not
\* disabled launches one child process with the argument sequence, on the
\* host of the directory when that is host:path, and returns the ID of
\* this process.  Calls that fail because the executable is missing are
\* left aside.
C19_Step ==
    (/\ Calling
     /\ ~ device.slurm
     /\ device.execute
     /\ ret'.exc # "FileNotFoundError") =>
        /\ Launching
        /\ procs'[Len(procs')].argv = ArgumentSequence
        /\ procs'[Len(procs')].via = device.ssh
        /\ jobs' = jobs
        /\ ret'.exc = "none"
        /\ ret'.value = 100 + Len(procs')

C19_DirectLaunch == [][C19_Step]_vars

\* C20: a call of a SlurmCPU or SlurmGPU device never launches a process
\* directly; when execution is not disabled it submits the jobscript to
\* the queue.
C20_Step ==
    (Calling /\ device.cls \in {"SlurmCPU", "SlurmGPU"}) =>
        /\ ~ Launching
        /\ device.execute => Len(jobs') = Len(jobs) + 1

C20_SlurmAlwaysQueues == [][C20_Step]_vars

\* a job is submitted in this step
Submitting == Len(jobs') = Len(jobs) + 1

\* the place of the first digit of a string, 0 when it has none
FirstDigitAt(cs) ==
    IF \E i \in 1..Len(cs) : cs[i] \in Digit10
    THEN CHOOSE i \in 1..Len(cs) :
            cs[i] \in Digit10 /\ \A j \in 1..(i - 1) : cs[j] \notin Digit10
    ELSE 0

\* the place of the last digit of the run of digits that starts at i
RunEnd(cs, i) ==
    CHOOSE k \in i..Len(cs) :
        /\ \A j \in i..k : cs[j] \in Digit10
        /\ k = Len(cs) \/ cs[k + 1] \notin Digit10

\* the value of the digit d
DigitValue(d) == CHOOSE k \in 0..9 : Digit[k + 1] = d

\* the number that a string of one or two digits writes
Decimal(ds) ==
    IF Len(ds) = 1 THEN DigitValue(ds[1])
    ELSE 10 * DigitValue(ds[1]) + DigitValue(ds[2])

\* C21: when a job is queued and the output of the submission command has
\* a digit, the call returns the integer that the first run of decimal
\* digits of the output writes.
C21_Step ==
    (Calling /\ Submitting) =>
        LET output == jobs'[Len(jobs')].output
            i == FirstDigitAt(output)
        IN  i > 0 =>
               /\ ret'.exc = "none"
               /\ ret'.value = Decimal(SubSeq(output, i, RunEnd(output, i)))

C21_FirstDigitsAreJobID == [][C21_Step]_vars

\* a job was queued, sbatch printed "job 42 on 7" and the call returned 42
C21_Witness ==
    /\ jobs # <<>>
    /\ ret.exc = "none"
    /\ jobs[Len(jobs)].output
         = <<"j", "o", "b", " ", "4", "2", " ", "o", "n", " ", "7">>
    /\ ret.value = 42

\* the file at a path
FileAt(files, path) == {f \in files : f.path = path}

\* C22: when the output of the submission command has no decimal digit the
\* call ends in IndexError and returns nothing; the jobscript has been
\* written and the submission has been made, and both stay as they are.
C22_Step ==
    (/\ Calling
     /\ device.cls # "none"
     /\ device.slurm /\ device.execute /\ device.ssh = NoneType
     /\ device.write_jobscript) =>
        /\ Submitting
        /\ FirstDigitAt(jobs'[Len(jobs')].output) = 0 =>
              /\ ret'.exc = "IndexError"
              /\ ret'.value = 0
              /\ FileAt(fs', jobs'[Len(jobs')].path) # {}
              /\ SubSeq(jobs', 1, Len(jobs)) = jobs
              /\ UNCHANGED procs

C22_NoDigitIndexError == [][C22_Step]_vars

\* a call ended in IndexError after sbatch printed "down"; the jobscript is
\* in the working directory and the submission is on record
C22_Witness ==
    /\ ret.exc = "IndexError"
    /\ jobs # <<>>
    /\ jobs[Len(jobs)].output = <<"d", "o", "w", "n">>
    /\ FileAt(fs, jobs[Len(jobs)].path) # {}
    /\ device.cls \notin {"none", "Custom"}

\* where a device stores its jobscript
JobscriptPath(d) == [dir |-> d.wd, name |-> d.jobname]

\* C26: a call of a device with execute=False writes the jobscript to the
\* working directory (when jobscripts are written at all), launches no
\* process, submits no job and returns 0.
C26_Step ==
    (Calling /\ device.cls \notin {"none", "Custom"} /\ ~ device.execute) =>
        /\ ret'.exc = "none"
        /\ ret'.value = 0
        /\ ~ Launching
        /\ ~ Submitting
        /\ device.write_jobscript =>
              \E f \in FileAt(fs', JobscriptPath(device)) :
                  f.text = device'.job.text

C26_ExecuteFalse == [][C26_Step]_vars

\* C27: every call of a device that writes jobscripts stores a jobscript
\* whose command line is the argument sequence of this call, built from
\* the script and the variables handed to it, on the first call of the
\* object and on every later one.
C27_Step ==
    (/\ Calling
     /\ device.cls \notin {"none", "Custom"}
     /\ device.write_jobscript
     /\ device.ssh = NoneType) =>
        \E f \in FileAt(fs', JobscriptPath(device)) :
            LastLine(f.text) = ArgumentSequence

C27_JobscriptOfThisCall == [][C27_Step]_vars

\* C30: when generate_parameter_file raises during the merge, for an
\* unknown "global" name or for a triple label absent from the table, the
\* parameter tables are as they were before the call: no override listed
\* before the offending entry is applied.
C30_Step ==
    (calls' = calls + 1 /\ raised'.stage = "merge") =>
        /\ raised'.exc \in {"NotImplementedError", "KeyError"}
        /\ water' = water
        /\ silica' = silica

C30_MergeIsAtomic == [][C30_Step]_vars

\* a step that is a call of run or of run_custom
Running_0 == simulator'.ran.n = simulator.ran.n + 1

\* a step in which the interrupt arrives
Interrupting == signals = <<>> /\ signals' # <<>>

\* the process identifier of the process launched last
LastPid == 100 + Len(procs)

\* C23: once a run on a local computer without a queue has launched a
\* process, an interrupt sends the termination signal to the process launched
\* last and then raises KeyboardInterrupt, in that order; a run on a queued
\* computer installs no handler, so that with nothing launched the interrupt
\* only raises KeyboardInterrupt.
C23_Step ==
    /\ (Interrupting /\ procs # <<>>) =>
           signals' = <<SIGTERM(LastPid), KeyboardInterrupt>>
    /\ (Interrupting /\ procs = <<>>) => signals' = <<KeyboardInterrupt>>
    /\ (Running_0 /\ device'.slurm) => handler' = handler

C23_InterruptKillsThenRaises == [][C23_Step]_vars

C23_Witness ==
    /\ signals = <<SIGTERM(101), KeyboardInterrupt>>
    /\ simulator.ran.n > 0 /\ simulator.ran.exc = "none"
    /\ simulator.ran.value = 101

\* C28: after an interrupt every process the runs have launched has been
\* sent the termination signal.
C28_EveryProcessTerminated ==
    signals # <<>> =>
        \A i \in 1..Len(procs) :
            \E j \in 1..Len(signals) : signals[j] = SIGTERM(100 + i)

\* C29: a call of run or of run_custom leaves the working directory of the
\* process as it found it, whether the launch returns or raises.
C29_Step == (Running_0 /\ Calling) => cwd' = cwd

C29_CwdRestored == [][C29_Step]_vars

\* C24: run with neither a computer nor a device builds a Device from the
\* settings accumulated so far merged with the keyword arguments of the
\* call, calls it on the stored script and variables and returns the job
\* identifier the device returned, for a local directory and for host:path.
C24_Step ==
    (Running_0 /\ simulator'.ran.by = "settings"
               /\ simulator.lmp_script # "") =>
        /\ Calling
        /\ ret'.lmp_script = simulator.lmp_script
        /\ ret'.lmp_var = simulator.var
        /\ simulator'.ran.exc = ret'.exc
        /\ simulator'.ran.value = ret'.value

C24_RunBuildsDevice == [][C24_Step]_vars

\* a step that is a call of add_to_jobscript
Adding ==
    /\ simulator'.called.n = simulator.called.n + 1
    /\ simulator'.called.op = "add_to_jobscript"

\* C25: with a jobscript pre-generated and added to, the next run writes
\* exactly the stored jobscript string to the jobscript of the working
\* directory and, on a queued device, submits it; add_to_jobscript before any
\* pre-generation fails its assertion and leaves the stored jobscript unset.
C25_Step ==
    /\ (Running_0 /\ simulator.jobscript_string.set) =>
           /\ \E f \in fs' : /\ f.text = simulator.jobscript_string.text
                             /\ f.path.name = device'.jobname
           /\ device'.slurm => /\ Len(jobs') = Len(jobs) + 1
                               /\ jobs'[Len(jobs')].path.name = device'.jobname
    /\ (Adding /\ ~ simulator.jobscript_string.set) =>
           /\ simulator'.called.exc = "AssertionError"
           /\ ~ simulator'.jobscript_string.set

C25_StoredJobscriptIsRun == [][C25_Step]_vars
====
